---- MODULE Spec2Model ----
(***************************************************************************)
(* A model of the dynamic query builder of app/utils/query_builder.py      *)
(* (FlexibleQueryBuilder) together with the static catalogs it reads.      *)
(*                                                                         *)
(* Text.  Python strings are modelled as sequences of atoms.  An atom is a *)
(* maximal run of identifier characters ("tr", "statusId", "COUNT"), a     *)
(* numeral ("5", "2020") or one punctuation mark (".", ",", "'", " ").     *)
(* Every text of the model, the request values included, is written in     *)
(* this canonical form, so two texts are equal exactly when the strings    *)
(* they stand for are equal, and the character-level tests of the code     *)
(* (startswith, in, split, strip, the regular expressions) become tests on *)
(* atoms.                                                                  *)
(***************************************************************************)
EXTENDS Integers, Sequences, FiniteSets, TLC

\* ------------------------------------------------------------------ atoms

Sp == " "
Dot == "."
Comma == ","
Quote == "'"

\* Atoms that are neither letters nor digits.
Punct ==
    {" ", ".", ",", ":", ";", "(", ")", "'", "=", "*", "{}", "%", "-", "+",
     ">=", "<=", ">", "<", "!="}

\* Atoms made of digits.
Numerals == {"0", "1", "2", "3", "4", "5", "8", "9", "10", "14", "2020"}

\* Identifier atoms that hold an upper-case letter or an underscore; every
\* other identifier atom of the model is made of lower-case letters only.
MixedWords ==
    {"COUNT", "SUM", "AVG", "MIN", "MAX", "DISTINCT", "OVER", "PARTITION", "BY",
     "IN", "BETWEEN", "AND", "OR", "IS", "NOT", "NULL", "LIKE", "ILIKE",
     "ASC", "DESC", "SELECT", "FROM", "JOIN", "ON", "WHERE", "GROUP", "ORDER",
     "LIMIT", "OFFSET", "SCHEMA", "AS",
     "transactionIdTypeId", "transactionIdTypeName", "announcedYear",
     "announcedMonth", "announcedDay", "transactionSize", "transactionId",
     "currencyId", "currencyCode", "companyName", "companyId",
     "simpleIndustryId", "simpleIndustryDescription", "countryId",
     "transactionToCompRelTypeId", "statusId", "leadInvestorFlag",
     "individualEquity", "percentAcquired", "companyRelId", "advisorTypeId",
     "statusName",
     "ciqTransaction", "ciqCompany", "ciqTransactionType", "ciqSimpleIndustry",
     "ciqCountryGeo", "ciqCurrency", "ciqTransactionToCompanyRel",
     "ciqTransactionToCompRelType", "ciqCompanyRel", "ciqTransactionToAdvisor",
     "ciqAdvisorType", "ciqTransactionStatus",
     "transaction_type", "GTE"}

\* [a-z]+
IsLower(a) == a \notin (Punct \cup Numerals \cup MixedWords)

\* [a-zA-Z_]+
IsIdent(a) == a \notin (Punct \cup Numerals)

\* ------------------------------------------------------------- text helpers

\* substring test for a one-atom needle: needle in text
Contains(t, a) == \E i \in 1..Len(t) : t[i] = a

\* str.startswith
StartsWith(t, p) == Len(t) >= Len(p) /\ SubSeq(t, 1, Len(p)) = p

\* index of the first occurrence of atom a in t, 0 when there is none
IndexOf(t, a) ==
    IF Contains(t, a) THEN CHOOSE i \in 1..Len(t) : t[i] = a /\ \A j \in 1..(i - 1) : t[j] # a
    ELSE 0

\* str.strip (the only white space of the model is the blank)
RECURSIVE LStrip(_)
LStrip(t) == IF t # <<>> /\ Head(t) = Sp THEN LStrip(Tail(t)) ELSE t

RECURSIVE RStrip(_)
RStrip(t) == IF t # <<>> /\ t[Len(t)] = Sp THEN RStrip(SubSeq(t, 1, Len(t) - 1)) ELSE t

Strip(t) == RStrip(LStrip(t))

\* str.strip("'")
RECURSIVE LStripQ(_)
LStripQ(t) == IF t # <<>> /\ Head(t) = Quote THEN LStripQ(Tail(t)) ELSE t

RECURSIVE RStripQ(_)
RStripQ(t) == IF t # <<>> /\ t[Len(t)] = Quote THEN RStripQ(SubSeq(t, 1, Len(t) - 1)) ELSE t

StripQ(t) == RStripQ(LStripQ(t))

\* str.split(sep): the pieces between the occurrences of the atom sep
RECURSIVE Split(_, _)
Split(t, sep) ==
    LET i == IndexOf(t, sep)
    IN  IF i = 0 THEN <<t>>
        ELSE <<SubSeq(t, 1, i - 1)>> \o Split(SubSeq(t, i + 1, Len(t)), sep)

\* str.split(sep, 1), for a text that holds sep
SplitOnce(t, sep) ==
    LET i == IndexOf(t, sep)
    IN  <<SubSeq(t, 1, i - 1), SubSeq(t, i + 1, Len(t))>>

\* sep.join(texts)
RECURSIVE Join(_, _)
Join(ts, sep) ==
    IF ts = <<>> THEN <<>>
    ELSE IF Len(ts) = 1 THEN ts[1]
    ELSE ts[1] \o sep \o Join(Tail(ts), sep)

\* f"'{t}'"
Quoted(t) == <<Quote>> \o t \o <<Quote>>

\* "alias.column"
F(alias, column) == <<alias, Dot, column>>

\* the elements of a sequence
Range(s) == {s[i] : i \in 1..Len(s)}

\* ------------------------------------------------------- ordered mappings

\* A Python dict is a sequence of entries in insertion order, one per key.
Keys(d) == [i \in 1..Len(d) |-> d[i].key]

Has(d, k) == \E i \in 1..Len(d) : d[i].key = k

Get(d, k) == d[CHOOSE i \in 1..Len(d) : d[i].key = k]

\* {**d, **e}: an entry of e replaces the entry of d with its key in place,
\* and is appended when d has no such key.
RECURSIVE DictMerge(_, _)
DictMerge(d, e) ==
    IF e = <<>> THEN d
    ELSE LET x == Head(e)
             d1 == IF Has(d, x.key)
                   THEN [i \in 1..Len(d) |-> IF d[i].key = x.key THEN x ELSE d[i]]
                   ELSE Append(d, x)
         IN  DictMerge(d1, Tail(e))

\* ------------------------------------------------------------ join catalogs

\* "l = r"
Eq(l, r) == l \o <<Sp, "=", Sp>> \o r

\* "l AND r"
And(l, r) == l \o <<Sp, "AND", Sp>> \o r

J(k, t, a, c, r) == [key |-> k, table |-> t, alias |-> a, condition |-> c, requires |-> r]

BASE_JOINS ==
    << J("company", "ciqCompany", "c", Eq(F("tr", "companyId"), F("c", "companyId")), <<>>),
       J("industry", "ciqSimpleIndustry", "si",
         Eq(F("c", "simpleIndustryId"), F("si", "simpleIndustryId")), <<"company">>),
       J("country", "ciqCountryGeo", "geo",
         Eq(F("c", "countryId"), F("geo", "countryId")), <<"company">>),
       J("currency", "ciqCurrency", "cur",
         Eq(F("tr", "currencyId"), F("cur", "currencyId")), <<>>) >>

TRANSACTION_TYPE_JOIN_PATHS ==
    << J("transaction_type", "ciqTransactionType", "tt",
         Eq(F("tr", "transactionIdTypeId"), F("tt", "transactionIdTypeId")), <<>>) >>

RELATIONSHIP_JOIN_PATHS ==
    << J("transaction_company_rel", "ciqTransactionToCompanyRel", "tcr",
         Eq(F("tr", "transactionId"), F("tcr", "transactionId")), <<>>),
       J("comp_rel_type", "ciqTransactionToCompRelType", "crt",
         Eq(F("tcr", "transactionToCompRelTypeId"), F("crt", "transactionToCompRelTypeId")),
         <<"transaction_company_rel">>),
       J("related_company", "ciqCompany", "rc",
         Eq(F("tcr", "companyRelId"), F("rc", "companyId")), <<"transaction_company_rel">>) >>

ADVISORY_JOIN_PATHS ==
    << J("transaction_to_advisor", "ciqTransactionToAdvisor", "tadv",
         Eq(F("tr", "transactionId"), F("tadv", "transactionId")), <<>>),
       J("advisor_type", "ciqAdvisorType", "advtype",
         Eq(F("tadv", "advisorTypeId"), F("advtype", "advisorTypeId")),
         <<"transaction_to_advisor">>),
       J("advisor_company", "ciqCompany", "advisor",
         Eq(F("tadv", "companyId"), F("advisor", "companyId")), <<"transaction_to_advisor">>) >>

STATUS_JOIN_PATHS ==
    << J("transaction_status", "ciqTransactionStatus", "ts",
         Eq(F("tr", "statusId"), F("ts", "statusId")), <<>>) >>

COMPANY_REL_JOIN_PATHS ==
    << J("transaction_company_rel", "ciqTransactionToCompanyRel", "tcr",
         Eq(F("tr", "transactionId"), F("tcr", "transactionId")), <<>>),
       J("company_rel", "ciqCompany", "rc",
         Eq(F("tcr", "companyRelId"), F("rc", "companyId")), <<"transaction_company_rel">>),
       J("comp_rel_type", "ciqTransactionToCompRelType", "crt",
         Eq(F("tcr", "transactionToCompRelTypeId"), F("crt", "transactionToCompRelTypeId")),
         <<"transaction_company_rel">>) >>

ROLE_SPECIFIC_JOINS ==
    << J("acquirer", "ciqCompany", "acquirer",
         And(Eq(F("tcr", "companyRelId"), F("acquirer", "companyId")),
             Eq(F("tcr", "transactionToCompRelTypeId"), <<"1">>)),
         <<"transaction_company_rel">>),
       J("target", "ciqCompany", "target",
         Eq(F("tr", "companyId"), F("target", "companyId")), <<>>),
       J("seller", "ciqCompany", "seller",
         And(Eq(F("tcr", "companyRelId"), F("seller", "companyId")),
             Eq(F("tcr", "transactionToCompRelTypeId"), <<"3">>)),
         <<"transaction_company_rel">>),
       J("investor", "ciqCompany", "investor",
         And(Eq(F("tcr", "companyRelId"), F("investor", "companyId")),
             Eq(F("tcr", "transactionToCompRelTypeId"), <<"4">>)),
         <<"transaction_company_rel">>) >>

ALL_JOIN_PATHS ==
    DictMerge(DictMerge(DictMerge(DictMerge(DictMerge(DictMerge(
        BASE_JOINS, TRANSACTION_TYPE_JOIN_PATHS), RELATIONSHIP_JOIN_PATHS),
        ADVISORY_JOIN_PATHS), STATUS_JOIN_PATHS), COMPANY_REL_JOIN_PATHS),
        ROLE_SPECIFIC_JOINS)

JOIN_PATHS ==
    << J("type", "ciqTransactionType", "tt",
         Eq(F("tr", "transactionIdTypeId"), F("tt", "transactionIdTypeId")), <<>>),
       J("transaction_type", "ciqTransactionType", "trtype",
         Eq(F("tr", "transactionIdTypeId"), F("trtype", "transactionIdTypeId")), <<>>),
       J("company", "ciqCompany", "c", Eq(F("tr", "companyId"), F("c", "companyId")), <<>>),
       J("company_alt", "ciqCompany", "company",
         Eq(F("tr", "companyId"), F("company", "companyId")), <<>>),
       J("company_reverse", "ciqCompany", "c",
         Eq(F("c", "companyId"), F("tr", "companyId")), <<>>),
       J("industry", "ciqSimpleIndustry", "si",
         Eq(F("c", "simpleIndustryId"), F("si", "simpleIndustryId")), <<"company">>),
       J("country", "ciqCountryGeo", "geo",
         Eq(F("c", "countryId"), F("geo", "countryId")), <<"company">>),
       J("currency", "ciqCurrency", "cur",
         Eq(F("tr", "currencyId"), F("cur", "currencyId")), <<>>),
       J("target_company", "ciqCompany", "targetcompany",
         Eq(F("tr", "companyId"), F("targetcompany", "companyId")), <<>>),
       J("target_industry", "ciqSimpleIndustry", "si",
         Eq(F("targetcompany", "simpleIndustryId"), F("si", "simpleIndustryId")),
         <<"target_company">>),
       J("target_country", "ciqCountryGeo", "country",
         Eq(F("targetcompany", "countryId"), F("country", "countryId")),
         <<"target_company">>),
       J("transaction_rel", "ciqTransactionToCompanyRel", "cr",
         Eq(F("tr", "transactionId"), F("cr", "transactionId")), <<>>),
       J("relation_type", "ciqTransactionToCompRelType", "crt",
         Eq(F("cr", "transactionToCompRelTypeId"), F("crt", "transactionToCompRelTypeId")),
         <<"transaction_rel">>),
       J("company_rel", "ciqCompanyRel", "crel",
         Eq(F("cr", "companyRelId"), F("crel", "companyRelId")), <<"transaction_rel">>),
       J("buyer_company", "ciqCompany", "buyer",
         Eq(F("crel", "companyId"), F("buyer", "companyId")), <<"company_rel">>),
       J("acquirer_company", "ciqCompany", "acquirer",
         Eq(F("crel", "companyId"), F("acquirer", "companyId")), <<"company_rel">>),
       J("buyer_industry", "ciqSimpleIndustry", "buyersi",
         Eq(F("buyer", "simpleIndustryId"), F("buyersi", "simpleIndustryId")),
         <<"buyer_company">>),
       J("buyer_country", "ciqCountryGeo", "buyergeo",
         Eq(F("buyer", "countryId"), F("buyergeo", "countryId")), <<"buyer_company">>) >>

\* join_info as _add_join_with_dependencies looks it up: ALL_JOIN_PATHS first,
\* JOIN_PATHS when ALL_JOIN_PATHS has no such key, None otherwise.
None == "None"

\* whether that lookup finds an entry
KnownJoin(join_key) == Has(ALL_JOIN_PATHS, join_key) \/ Has(JOIN_PATHS, join_key)

JoinInfo(join_key) ==
    IF Has(ALL_JOIN_PATHS, join_key) THEN Get(ALL_JOIN_PATHS, join_key)
    ELSE Get(JOIN_PATHS, join_key)

\* ------------------------------------------------ field and operator catalogs

M(k, v) == [key |-> k, val |-> v]

\* "FUNC(arg)"
Call(func, arg) == <<func, "(">> \o arg \o <<")">>

\* " OVER (PARTITION BY {})"
OverPartition == <<Sp, "OVER", Sp, "(", "PARTITION", Sp, "BY", Sp, "{}", ")">>

FIELD_MAPPINGS ==
    << M("type", F("tr", "transactionIdTypeId")),
       M("typeName", F("tt", "transactionIdTypeName")),
       M("year", F("tr", "announcedYear")),
       M("month", F("tr", "announcedMonth")),
       M("day", F("tr", "announcedDay")),
       M("size", F("tr", "transactionSize")),
       M("transactionId", F("tr", "transactionId")),
       M("currency", F("tr", "currencyId")),
       M("company", F("c", "companyName")),
       M("companyName", F("c", "companyName")),
       M("companyId", F("c", "companyId")),
       M("target", F("targetcompany", "companyName")),
       M("targetId", F("targetcompany", "companyId")),
       M("acquirer", F("acquirer", "companyName")),
       M("acquirerId", F("acquirer", "companyId")),
       M("buyer", F("buyer", "companyName")),
       M("buyerId", F("buyer", "companyId")),
       M("industry", F("si", "simpleIndustryId")),
       M("industryDescription", F("si", "simpleIndustryDescription")),
       M("country", F("geo", "countryId")),
       M("countryName", F("geo", "country")),
       M("currencyId", F("cur", "currencyId")),
       M("currencyCode", F("cur", "currencyCode")),
       M("relationType", F("crt", "transactionToCompRelTypeId")),
       M("count", Call("COUNT", F("tr", "transactionId"))),
       M("countDistinct", Call("COUNT", Call("DISTINCT", <<"{}">>))),
       M("sum", Call("SUM", <<"{}">>)),
       M("avg", Call("AVG", <<"{}">>)),
       M("min", Call("MIN", <<"{}">>)),
       M("max", Call("MAX", <<"{}">>)),
       M("sumOver", Call("SUM", <<"{}">>) \o OverPartition),
       M("avgOver", Call("AVG", <<"{}">>) \o OverPartition),
       M("countOver", Call("COUNT", <<"{}">>) \o OverPartition) >>

\* the mappings dict local to _map_field_name
LocalMappings ==
    << M("type", F("tr", "transactionIdTypeId")),
       M("typeName", F("tt", "transactionIdTypeName")),
       M("year", F("tr", "announcedYear")),
       M("month", F("tr", "announcedMonth")),
       M("day", F("tr", "announcedDay")),
       M("size", F("tr", "transactionSize")),
       M("status", F("tr", "statusId")),
       M("currency", F("tr", "currencyId")),
       M("company", F("c", "companyName")),
       M("companyName", F("c", "companyName")),
       M("companyId", F("c", "companyId")),
       M("industry", F("si", "simpleIndustryId")),
       M("country", F("geo", "countryId")),
       M("acquirerId", F("acquirer", "companyId")),
       M("targetId", F("target", "companyId")),
       M("sellerId", F("seller", "companyId")),
       M("investorId", F("investor", "companyId")),
       M("advisorId", F("advisor", "companyId")),
       M("relationType", F("crt", "transactionToCompRelTypeId")),
       M("leadInvestor", F("tcr", "leadInvestorFlag")),
       M("individualEquity", F("tcr", "individualEquity")),
       M("percentAcquired", F("tcr", "percentAcquired")),
       M("count", Call("COUNT", F("tr", "transactionId"))) >>

FILTER_OPERATORS ==
    << M("gte", <<">=">>), M("lte", <<"<=">>), M("gt", <<">">>), M("lt", <<"<">>),
       M("ne", <<"!=">>), M("like", <<"LIKE">>), M("ilike", <<"ILIKE">>),
       M("null", <<"IS", Sp, "NULL">>), M("notnull", <<"IS", Sp, "NOT", Sp, "NULL">>),
       M("between", <<"BETWEEN", Sp, "{}", Sp, "AND", Sp, "{}">>) >>

DEFAULT_INCLUDED_STATUSES == <<1, 2, 3, 8, 9, 10>>

P(k, c, r) == [key |-> k, conditions |-> c, recommended_joins |-> r]

Wildcard == <<"*">>

QUERY_PATTERNS ==
    << P("private_placements", <<M("type", <<"1">>)>>, <<"type", "company">>),
       P("buybacks", <<M("type", <<"14">>)>>, <<"transaction_type", "company_alt">>),
       P("ma_transactions", <<M("type", <<"2">>)>>,
         <<"transaction_type", "target_company", "transaction_rel", "relation_type",
           "company_rel", "acquirer_company">>),
       P("industry_country_analysis",
         <<M("industry", Wildcard), M("country", Wildcard)>>,
         <<"company", "industry", "country">>) >>

\* _get_field_keys: the names accepted as filter parameters beside the join keys
FieldKeys ==
    {"type", "year", "month", "day", "size", "status", "currency",
     "company", "companyName", "companyId", "industry", "country",
     "acquirerId", "targetId", "sellerId", "investorId", "advisorId",
     "relationType", "leadInvestor", "individualEquity", "percentAcquired"}
    \cup Range(Keys(FIELD_MAPPINGS))

\* str(n) and int(text) for the numerals of the model
NumeralOf == [n \in {0, 1, 2, 3, 4, 5, 8, 9, 10, 14, 2020} |->
                CASE n = 0 -> "0" [] n = 1 -> "1" [] n = 2 -> "2" [] n = 3 -> "3"
                  [] n = 4 -> "4" [] n = 5 -> "5" [] n = 8 -> "8" [] n = 9 -> "9"
                  [] n = 10 -> "10" [] n = 14 -> "14" [] n = 2020 -> "2020"]

Str(n) == NumeralOf[n]

ValueOf(a) == CHOOSE n \in DOMAIN NumeralOf : NumeralOf[n] = a

\* ------------------------------------------------------------ the builder

\* FlexibleQueryBuilder.__init__: the fields of a fresh builder.  limit_value
\* and offset_value are <<>> for None and <<n>> for the integer n.
base_alias == "tr"

base_table == "ciqTransaction"

schema == "SCHEMA"

NewBuilder ==
    [select_fields |-> <<>>, where_conditions |-> <<>>, group_by_fields |-> <<>>,
     order_by_clauses |-> <<>>, limit_value |-> <<>>, offset_value |-> <<>>,
     joins |-> <<>>, detected_pattern |-> None, or_conditions |-> <<>>,
     has_window_function |-> FALSE, has_distinct |-> FALSE]

\* _map_field_name
MapFieldName_CatalogOnly(key) ==
    IF Contains(key, Dot) THEN key
    ELSE IF Len(key) = 1 /\ Has(FIELD_MAPPINGS, key[1]) THEN Get(FIELD_MAPPINGS, key[1]).val
    ELSE key

MapFieldName(key) ==
    IF Contains(key, Dot) THEN key
    ELSE IF Len(key) = 1 /\ Has(FIELD_MAPPINGS, key[1]) THEN Get(FIELD_MAPPINGS, key[1]).val
    ELSE IF Len(key) = 1 /\ Has(LocalMappings, key[1]) THEN Get(LocalMappings, key[1]).val
    ELSE key

\* _add_join_with_dependencies, on the list of active joins.  An active join
\* is held by its key: its 'info' is JoinInfo(key), the entry looked up when
\* it was added.
RECURSIVE AddJoinWithDependencies(_, _)
RECURSIVE AddDependencies(_, _)
AddDependencies(joins, requires) ==
    IF requires = <<>> THEN joins
    ELSE AddDependencies(AddJoinWithDependencies(joins, Head(requires)), Tail(requires))

AddJoinWithDependencies_NoSkip(joins, join_key) ==
    IF ~KnownJoin(join_key) THEN joins
    ELSE Append(AddDependencies(joins, JoinInfo(join_key).requires), join_key)

AddJoinWithDependencies_SelfFirst(joins, join_key) ==
    IF join_key \in Range(joins) THEN joins
    ELSE IF ~KnownJoin(join_key) THEN joins
    ELSE AddDependencies(Append(joins, join_key), JoinInfo(join_key).requires)

AddJoinWithDependencies(joins, join_key) ==
    IF join_key \in Range(joins) THEN joins
    ELSE IF ~KnownJoin(join_key) THEN joins
    ELSE Append(AddDependencies(joins, JoinInfo(join_key).requires), join_key)

\* the joins of a catalog whose alias is prefix, in iteration order
Matching(catalog, prefix) == SelectSeq(catalog, LAMBDA e : e.alias = prefix)

\* _add_join_for_prefix
MatchingJoins_LocalFirst(prefix) ==
    IF Matching(JOIN_PATHS, prefix) # <<>> THEN Matching(JOIN_PATHS, prefix)
    ELSE Matching(ALL_JOIN_PATHS, prefix)

MatchingJoins(prefix) ==
    IF Matching(ALL_JOIN_PATHS, prefix) # <<>> THEN Matching(ALL_JOIN_PATHS, prefix)
    ELSE Matching(JOIN_PATHS, prefix)

AddJoinForPrefix(joins, prefix) ==
    IF prefix = base_alias THEN joins
    ELSE IF MatchingJoins(prefix) = <<>> THEN joins
    ELSE IF \E i \in 1..Len(joins) : JoinInfo(joins[i]).alias = prefix THEN joins
    ELSE AddJoinWithDependencies(joins, MatchingJoins(prefix)[1].key)

\* _check_field_for_join: re.match(r'([a-z]+)\.', field)
CheckFieldForJoin(joins, field) ==
    IF Len(field) >= 2 /\ IsLower(field[1]) /\ field[2] = Dot
    THEN AddJoinForPrefix(joins, field[1])
    ELSE joins

\* -------------------------------------------------- parameter processing

\* An operation that may raise returns [b |-> builder, exc |-> exception]:
\* exc is <<>> when nothing was raised and <<type, detail>> otherwise.
Ok(b) == [b |-> b, exc |-> <<>>]

Raise(b, type, detail) == [b |-> b, exc |-> <<type, detail>>]

\* index of the first occurrence of atom a in t at or after from, 0 when none
IndexFrom(t, a, from) ==
    IF \E i \in from..Len(t) : t[i] = a
    THEN CHOOSE i \in from..Len(t) : t[i] = a /\ \A j \in from..(i - 1) : t[j] # a
    ELSE 0

\* str.upper, on the words the builder tests for
UpperAtom(a) ==
    CASE a = "count" -> "COUNT" [] a = "sum" -> "SUM" [] a = "avg" -> "AVG"
      [] a = "min" -> "MIN" [] a = "max" -> "MAX" [] a = "distinct" -> "DISTINCT"
      [] a = "over" -> "OVER" [] a = "asc" -> "ASC" [] a = "desc" -> "DESC"
      [] OTHER -> a

Upper(t) == [i \in 1..Len(t) |-> UpperAtom(t[i])]

WithJoins(b, joins) == [b EXCEPT !.joins = joins]

\* _process_filter: the operator of FILTER_OPERATORS the value starts with,
\* as an index, 0 when there is none (the first one wins)
OperatorOf_CommaFirst(value) ==
    LET hit(i) == StartsWith(value, <<FILTER_OPERATORS[i].key, ":">>)
    IN  IF ~Contains(value, Comma) /\ \E i \in 1..Len(FILTER_OPERATORS) : hit(i)
        THEN CHOOSE i \in 1..Len(FILTER_OPERATORS) :
                 hit(i) /\ \A j \in 1..(i - 1) : ~hit(j)
        ELSE 0

OperatorOf(value) ==
    LET hit(i) == StartsWith(value, <<FILTER_OPERATORS[i].key, ":">>)
    IN  IF \E i \in 1..Len(FILTER_OPERATORS) : hit(i)
        THEN CHOOSE i \in 1..Len(FILTER_OPERATORS) :
                 hit(i) /\ \A j \in 1..(i - 1) : ~hit(j)
        ELSE 0

\* the set-membership values: [f"'{v.strip()}'" for v in value.split(',')]
InValues_DropsLast(value) ==
    LET parts == Split(value, Comma)
    IN  [i \in 1..(Len(parts) - 1) |-> Quoted(Strip(parts[i]))]

InValues(value) ==
    LET parts == Split(value, Comma)
    IN  [i \in 1..Len(parts) |-> Quoted(Strip(parts[i]))]

\* the predicate of a between filter whose remainder holds a comma:
\* start, end = filter_value.split(",", 1), both stripped
BetweenCondition_NoStrip(field_name, filter_value) ==
    LET se == SplitOnce(filter_value, Comma)
    IN  field_name \o <<Sp, "BETWEEN", Sp>> \o Quoted(se[1])
        \o <<Sp, "AND", Sp>> \o Quoted(se[2])

BetweenCondition(field_name, filter_value) ==
    LET se == SplitOnce(filter_value, Comma)
    IN  field_name \o <<Sp, "BETWEEN", Sp>> \o Quoted(Strip(se[1]))
        \o <<Sp, "AND", Sp>> \o Quoted(Strip(se[2]))

\* _process_filter
ProcessFilter(b, key, value) ==
    LET field_name == MapFieldName(<<key>>)
        op == OperatorOf(value)
        add(cond) ==
            Ok([b EXCEPT !.where_conditions = Append(@, cond),
                         !.joins = CheckFieldForJoin(@, field_name)])
    IN  IF op # 0
        THEN LET op_prefix == FILTER_OPERATORS[op].key
                 sql_op == FILTER_OPERATORS[op].val
                 filter_value == SubSeq(value, 3, Len(value))
             IN  IF op_prefix = "between"
                 THEN IF Contains(filter_value, Comma)
                      THEN add(BetweenCondition(field_name, filter_value))
                      ELSE Raise(b, "QueryBuildError",
                                 <<"Invalid BETWEEN format: ">> \o filter_value)
                 ELSE IF op_prefix = "null"
                 THEN add(field_name \o <<Sp, "IS", Sp, "NULL">>)
                 ELSE IF op_prefix = "notnull"
                 THEN add(field_name \o <<Sp, "IS", Sp, "NOT", Sp, "NULL">>)
                 ELSE add(field_name \o <<Sp>> \o sql_op \o <<Sp>> \o Quoted(filter_value))
        ELSE IF Contains(value, Comma)
        THEN add(field_name \o <<Sp, "IN", Sp, "(">> \o Join(InValues(value), <<Comma, Sp>>)
                 \o <<")">>)
        ELSE add(field_name \o <<Sp, "=", Sp>> \o Quoted(value))

\* _process_select, one entry of the comma-separated list
ProcessSelectField(b, raw) ==
    LET field == Strip(raw)
        up == Upper(field)
        open == IndexFrom(field, "(", 1)
        close == IF open = 0 THEN 0 ELSE IndexFrom(field, ")", open + 1)
        inner == SubSeq(field, open + 1, close - 1)
    IN  IF Contains(up, "OVER")
        THEN [b EXCEPT !.has_window_function = TRUE,
                       !.select_fields = Append(@, field),
                       !.joins = IF close # 0 THEN CheckFieldForJoin(@, inner) ELSE @]
        ELSE IF Contains(up, "DISTINCT")
        THEN IF StartsWith(up, <<"COUNT", "(", "DISTINCT", "(">>)
             THEN \* re.search(r'COUNT\(DISTINCT\((.*?)\)\)')
                  LET ends == {j \in 5..(Len(field) - 1) : field[j] = ")" /\ field[j + 1] = ")"}
                  IN  IF ends = {} THEN [b EXCEPT !.has_distinct = TRUE]
                      ELSE LET j == CHOOSE x \in ends : \A y \in ends : x <= y
                           IN  [b EXCEPT !.has_distinct = TRUE,
                                         !.joins = CheckFieldForJoin(@, SubSeq(field, 5, j - 1)),
                                         !.select_fields = Append(@, field)]
             ELSE \* re.search(r'DISTINCT\((.*?)\)')
                  LET starts == {i \in 1..(Len(field) - 1) : up[i] = "DISTINCT" /\ field[i + 1] = "("}
                      i == IF starts = {} THEN 0 ELSE CHOOSE x \in starts : \A y \in starts : x <= y
                      j == IF i = 0 THEN 0 ELSE IndexFrom(field, ")", i + 2)
                  IN  IF j = 0 THEN [b EXCEPT !.has_distinct = TRUE]
                      ELSE [b EXCEPT !.has_distinct = TRUE,
                                     !.joins = CheckFieldForJoin(@, SubSeq(field, i + 2, j - 1)),
                                     !.select_fields = Append(@, field)]
        ELSE \* the aggregate loop, whose continue resumes that loop, then the mapping
             LET isAgg == Len(up) >= 2 /\ up[1] \in {"COUNT", "SUM", "AVG", "MIN", "MAX"}
                          /\ up[2] = "(" /\ close # 0
                 b1 == IF isAgg
                       THEN [b EXCEPT !.joins = CheckFieldForJoin(@, inner),
                                      !.select_fields = Append(@, field)]
                       ELSE b
                 mapped_field == MapFieldName(field)
             IN  [b1 EXCEPT !.select_fields = Append(@, mapped_field),
                            !.joins = CheckFieldForJoin(@, mapped_field)]

RECURSIVE ProcessSelectFields(_, _)
ProcessSelectFields(b, fields) ==
    IF fields = <<>> THEN b
    ELSE ProcessSelectFields(ProcessSelectField(b, Head(fields)), Tail(fields))

ProcessSelect(b, value) == ProcessSelectFields(b, Split(value, Comma))

\* _process_group_by
RECURSIVE ProcessGroupByFields(_, _)
ProcessGroupByFields_SelectUntouched(b, fields) ==
    IF fields = <<>> THEN b
    ELSE LET mapped_field == MapFieldName(Strip(Head(fields)))
             b1 == [b EXCEPT !.group_by_fields = Append(@, mapped_field),
                             !.joins = CheckFieldForJoin(@, mapped_field)]
         IN  ProcessGroupByFields(b1, Tail(fields))

ProcessGroupByFields(b, fields) ==
    IF fields = <<>> THEN b
    ELSE LET mapped_field == MapFieldName(Strip(Head(fields)))
             b1 == [b EXCEPT !.select_fields =
                                 IF mapped_field \in Range(@) THEN @ ELSE Append(@, mapped_field),
                             !.group_by_fields = Append(@, mapped_field),
                             !.joins = CheckFieldForJoin(@, mapped_field)]
         IN  ProcessGroupByFields(b1, Tail(fields))

ProcessGroupBy(b, value) == ProcessGroupByFields(b, Split(value, Comma))

\* _process_order_by; field.split(':') of more than two parts cannot be
\* unpacked into (field_name, direction) and raises ValueError
RECURSIVE ProcessOrderByFields(_, _)
ProcessOrderByFields(b, fields) ==
    IF fields = <<>> THEN Ok(b)
    ELSE LET field == Strip(Head(fields))
             parts == Split(field, ":")
             add(name, direction) ==
                 LET mapped_field == MapFieldName(name)
                 IN  [b EXCEPT !.order_by_clauses = Append(@, mapped_field \o <<Sp>> \o direction),
                               !.joins = CheckFieldForJoin(@, mapped_field)]
         IN  IF Contains(field, ":")
             THEN IF Len(parts) # 2
                  THEN Raise(b, "ValueError", <<"too many values to unpack (expected 2)">>)
                  ELSE ProcessOrderByFields(add(Strip(parts[1]), Upper(Strip(parts[2]))),
                                            Tail(fields))
             ELSE ProcessOrderByFields(add(Strip(field), <<"ASC">>), Tail(fields))

ProcessOrderBy(b, value) == ProcessOrderByFields(b, Split(value, Comma))

\* _process_or_condition
RECURSIVE ProcessOrConditions(_, _)
ProcessOrConditions(b, conditions) ==
    IF conditions = <<>> THEN b
    ELSE LET condition == Head(conditions)
             fv == SplitOnce(condition, "=")
             mapped_field == MapFieldName(Strip(fv[1]))
             b1 == IF Contains(condition, "=")
                   THEN [b EXCEPT !.or_conditions =
                                      Append(@, mapped_field \o <<Sp, "=", Sp>> \o Quoted(Strip(fv[2]))),
                                  !.joins = CheckFieldForJoin(@, mapped_field)]
                   ELSE b
         IN  ProcessOrConditions(b1, Tail(conditions))

ProcessOrCondition(b, value) == ProcessOrConditions(b, Split(value, ";"))

\* ------------------------------------------------------------- finalizing

\* index of the first atom of t at or after i that is no blank (\s*)
RECURSIVE SkipSp(_, _)
SkipSp(t, i) == IF i <= Len(t) /\ t[i] = Sp THEN SkipSp(t, i + 1) ELSE i

\* the ([a-z]+\.[a-zA-Z_]+) both expressions of _get_query_params start with
StartsWithField(c) == Len(c) >= 3 /\ IsLower(c[1]) /\ c[2] = Dot /\ IsIdent(c[3])

\* the parameter name _get_query_params gives a field, "" when it gives none
ParamNameOf(field) ==
    CASE field = F("tr", "transactionIdTypeId") -> "type"
      [] field = F("tr", "announcedYear") -> "year"
      [] field = F("tr", "statusId") -> "status"
      [] field = F("si", "simpleIndustryId") -> "industry"
      [] field = F("geo", "countryId") -> "country"
      [] OTHER -> ""

\* re.match(r'([a-z]+\.[a-zA-Z_]+)\s*=\s*\'([^\']+)\'', condition):
\* <<>> when there is no match, <<value>> otherwise
EqualityMatch(c) ==
    IF ~StartsWithField(c) THEN <<>>
    ELSE LET p == SkipSp(c, 4)
             q == SkipSp(c, p + 1)
             r == IndexFrom(c, Quote, q + 1)
         IN  IF p <= Len(c) /\ c[p] = "=" /\ q <= Len(c) /\ c[q] = Quote /\ r > q + 1
             THEN <<SubSeq(c, q + 1, r - 1)>>
             ELSE <<>>

\* re.match(r'([a-z]+\.[a-zA-Z_]+)\s+IN\s+\(([^\)]+)\)', condition), the
\* values stripped of blanks and quotes and joined by commas
InMatch(c) ==
    IF ~StartsWithField(c) THEN <<>>
    ELSE LET p == SkipSp(c, 4)
             q == SkipSp(c, p + 1)
             r == IndexFrom(c, ")", q + 1)
             parts == Split(SubSeq(c, q + 1, r - 1), Comma)
         IN  IF p > 4 /\ p <= Len(c) /\ c[p] = "IN" /\ q > p + 1 /\ q <= Len(c)
                /\ c[q] = "(" /\ r > q + 1
             THEN <<Join([i \in 1..Len(parts) |-> StripQ(Strip(parts[i]))], <<Comma>>)>>
             ELSE <<>>

\* params[name] = value
Put(params, name, value) == [k \in DOMAIN params \cup {name} |->
                                IF k = name THEN value ELSE params[k]]

\* _get_query_params: a function from parameter names to texts
RECURSIVE QueryParamsFrom(_, _)
QueryParamsFrom(conditions, params) ==
    IF conditions = <<>> THEN params
    ELSE LET c == Head(conditions)
             name == ParamNameOf(SubSeq(c, 1, 3))
             eq == EqualityMatch(c)
             in == InMatch(c)
             p1 == IF eq # <<>> /\ name # "" THEN Put(params, name, eq[1]) ELSE params
             p2 == IF in # <<>> /\ name # "" THEN Put(p1, name, in[1]) ELSE p1
         IN  QueryParamsFrom(Tail(conditions), p2)

NoParams == [k \in {} |-> <<>>]

GetQueryParams(b) == QueryParamsFrom(b.where_conditions, NoParams)

\* whether params satisfies every condition of a pattern
PatternMatches(pattern_info, params) ==
    \A i \in 1..Len(pattern_info.conditions) :
        LET cond == pattern_info.conditions[i]
        IN  /\ cond.key \in DOMAIN params
            /\ (cond.val = Wildcard \/ params[cond.key] = cond.val)

\* _detect_query_pattern: the value of detected_pattern after it
DetectQueryPattern(b) ==
    LET params == GetQueryParams(b)
        hit(i) == PatternMatches(QUERY_PATTERNS[i], params)
        typeIs(v) == "type" \in DOMAIN params /\ params["type"] = v
    IN  IF \E i \in 1..Len(QUERY_PATTERNS) : hit(i)
        THEN QUERY_PATTERNS[CHOOSE i \in 1..Len(QUERY_PATTERNS) :
                                hit(i) /\ \A j \in 1..(i - 1) : ~hit(j)].key
        ELSE IF typeIs(<<"2">>) THEN "ma_transactions"
        ELSE IF typeIs(<<"14">>) THEN "buybacks"
        ELSE IF typeIs(<<"1">>) THEN "private_placements"
        ELSE b.detected_pattern

\* _process_special_parameters: the joins it requires, in order
SpecialJoins(params) ==
    LET has(k) == k \in DOMAIN params
        when(c, keys) == IF c THEN keys ELSE <<>>
    IN  when(has("type"), <<"transaction_type">>)
        \o when(has("status"), <<"transaction_status">>)
        \o when(has("company") \/ has("companyName") \/ has("companyId"), <<"company">>)
        \o when(has("industry"), <<"industry">>)
        \o when(has("country"), <<"country">>)
        \o when(has("currency"), <<"currency">>)
        \o when(has("acquirerId"), <<"transaction_company_rel", "comp_rel_type", "acquirer">>)
        \o when(has("targetId"), <<"target">>)
        \o when(has("sellerId"), <<"transaction_company_rel", "comp_rel_type", "seller">>)
        \o when(has("investorId"), <<"transaction_company_rel", "comp_rel_type", "investor">>)
        \o when(has("advisorId"), <<"transaction_to_advisor", "advisor_company">>)

ProcessSpecialParameters(joins, params) == AddDependencies(joins, SpecialJoins(params))

\* _add_pattern_joins: the joins the detected pattern requires, in order
PatternJoins_HardCodedFirst(detected_pattern) ==
    IF detected_pattern = "ma_transactions"
    THEN <<"transaction_type", "target", "transaction_company_rel", "comp_rel_type", "acquirer">>
    ELSE IF detected_pattern \in {"buybacks", "private_placements"}
    THEN <<"transaction_type", "company">>
    ELSE IF Has(QUERY_PATTERNS, detected_pattern)
    THEN Get(QUERY_PATTERNS, detected_pattern).recommended_joins
    ELSE <<>>

PatternJoins(detected_pattern) ==
    IF Has(QUERY_PATTERNS, detected_pattern)
    THEN Get(QUERY_PATTERNS, detected_pattern).recommended_joins
    ELSE IF detected_pattern = "ma_transactions"
    THEN <<"transaction_type", "target", "transaction_company_rel", "comp_rel_type", "acquirer">>
    ELSE IF detected_pattern \in {"buybacks", "private_placements"}
    THEN <<"transaction_type", "company">>
    ELSE <<>>

AddPatternJoins(joins, detected_pattern) ==
    AddDependencies(joins, PatternJoins(detected_pattern))

\* re.findall(r'([a-z]+)\.([a-zA-Z_]+)', text): the prefixes found, scanning
\* from atom i, matches not overlapping
RECURSIVE FieldRefs(_, _)
FieldRefs(t, i) ==
    IF i + 2 > Len(t) THEN <<>>
    ELSE IF IsLower(t[i]) /\ t[i + 1] = Dot /\ IsIdent(t[i + 2])
    THEN <<t[i]>> \o FieldRefs(t, i + 3)
    ELSE FieldRefs(t, i + 1)

RECURSIVE AddJoinsForPrefixes(_, _)
AddJoinsForPrefixes(joins, prefixes) ==
    IF prefixes = <<>> THEN joins
    ELSE AddJoinsForPrefixes(
             IF Head(prefixes) # base_alias THEN AddJoinForPrefix(joins, Head(prefixes))
             ELSE joins,
             Tail(prefixes))

\* _add_field_based_joins
AddFieldBasedJoins(b) ==
    LET all_text == Join(b.select_fields \o b.where_conditions \o b.group_by_fields
                         \o b.order_by_clauses, <<Sp>>)
    IN  AddJoinsForPrefixes(b.joins, FieldRefs(all_text, 1))

\* _analyze_field_usage
AnalyzeFieldUsage(b) ==
    LET params == GetQueryParams(b)
        b1 == WithJoins(b, ProcessSpecialParameters(b.joins, params))
        b2 == WithJoins(b1, AddPatternJoins(b1.joins, b1.detected_pattern))
    IN  WithJoins(b2, AddFieldBasedJoins(b2))

\* 'tr.statusId' in condition
HasStatusRef(condition) ==
    \E i \in 1..(Len(condition) - 2) :
        condition[i] = "tr" /\ condition[i + 1] = Dot /\ condition[i + 2] = "statusId"

\* the condition _add_default_status_filter appends
DefaultStatusCondition ==
    F("tr", "statusId") \o <<Sp, "IN", Sp, "(">>
    \o Join([i \in 1..Len(DEFAULT_INCLUDED_STATUSES) |-> <<Str(DEFAULT_INCLUDED_STATUSES[i])>>],
            <<Comma, Sp>>)
    \o <<")">>

\* _add_default_status_filter
AddDefaultStatusFilter(b) ==
    IF \E i \in 1..Len(b.where_conditions) : HasStatusRef(b.where_conditions[i]) THEN b
    ELSE [b EXCEPT !.where_conditions = Append(@, DefaultStatusCondition)]

\* parse_request_params, lines 95-97: the OR conditions folded into one
FoldOrConditions_NoParentheses(b) ==
    IF b.or_conditions = <<>> THEN b
    ELSE [b EXCEPT !.where_conditions = Append(@, Join(b.or_conditions, <<Sp, "OR", Sp>>))]

FoldOrConditions(b) ==
    IF b.or_conditions = <<>> THEN b
    ELSE [b EXCEPT !.where_conditions =
              Append(@, <<"(">> \o Join(b.or_conditions, <<Sp, "OR", Sp>>) \o <<")">>)]

\* --------------------------------------------------------------- rendering

\* _order_joins: the active joins in rendered order.  Each round emits, in
\* insertion order, the remaining joins none of whose prerequisites remains,
\* and the first remaining join when there is none.
RECURSIVE OrderRounds(_, _)
OrderRounds_Prepends(ordered_joins, remaining_joins) ==
    IF remaining_joins = <<>> THEN ordered_joins
    ELSE LET isReady(j) == \A dep \in Range(JoinInfo(j).requires) :
                               dep \notin Range(remaining_joins)
             found == SelectSeq(remaining_joins, isReady)
             ready_joins == IF found = <<>> THEN <<remaining_joins[1]>> ELSE found
         IN  OrderRounds(ready_joins \o ordered_joins,
                         SelectSeq(remaining_joins, LAMBDA j : j \notin Range(ready_joins)))

OrderRounds_ReadyReversed(ordered_joins, remaining_joins) ==
    IF remaining_joins = <<>> THEN ordered_joins
    ELSE LET isReady(j) == \A dep \in Range(JoinInfo(j).requires) :
                               dep \notin Range(remaining_joins)
             found == SelectSeq(remaining_joins, isReady)
             ready_joins == IF found = <<>> THEN <<remaining_joins[1]>>
                            ELSE [i \in 1..Len(found) |-> found[Len(found) + 1 - i]]
         IN  OrderRounds(ordered_joins \o ready_joins,
                         SelectSeq(remaining_joins, LAMBDA j : j \notin Range(ready_joins)))

OrderRounds(ordered_joins, remaining_joins) ==
    IF remaining_joins = <<>> THEN ordered_joins
    ELSE LET isReady(j) == \A dep \in Range(JoinInfo(j).requires) :
                               dep \notin Range(remaining_joins)
             found == SelectSeq(remaining_joins, isReady)
             ready_joins == IF found = <<>> THEN <<remaining_joins[1]>> ELSE found
         IN  OrderRounds(ordered_joins \o ready_joins,
                         SelectSeq(remaining_joins, LAMBDA j : j \notin Range(ready_joins)))

OrderJoins(joins) == OrderRounds(<<>>, joins)

\* str(n) of an integer
IntText(n) == IF n < 0 THEN <<"-", Str(-n)>> ELSE <<Str(n)>>

\* the JOIN statement of one active join
JoinStatement(join_key) ==
    <<"JOIN", Sp, schema, Dot, JoinInfo(join_key).table, Sp, JoinInfo(join_key).alias,
      Sp, "ON", Sp>> \o JoinInfo(join_key).condition

\* build_query, the standard path: the clauses, the empty ones left out
QueryParts_OffsetAlone(b) ==
    LET ordered == OrderJoins(b.joins)
        join_statements == [i \in 1..Len(ordered) |-> JoinStatement(ordered[i])]
        select_clause == <<"SELECT", Sp>> \o Join(b.select_fields, <<Comma, Sp>>)
        from_clause == <<"FROM", Sp, schema, Dot, base_table, Sp, base_alias>>
        join_clause == Join(join_statements, <<Sp>>)
        where_clause == IF b.where_conditions # <<>>
                        THEN <<"WHERE", Sp>> \o Join(b.where_conditions, <<Sp, "AND", Sp>>)
                        ELSE <<>>
        group_by_clause == IF b.group_by_fields # <<>>
                           THEN <<"GROUP", Sp, "BY", Sp>> \o Join(b.group_by_fields, <<Comma, Sp>>)
                           ELSE <<>>
        order_by_clause == IF b.order_by_clauses # <<>>
                           THEN <<"ORDER", Sp, "BY", Sp>> \o Join(b.order_by_clauses, <<Comma, Sp>>)
                           ELSE <<>>
        limit_clause == IF b.limit_value # <<>>
                        THEN <<"LIMIT", Sp>> \o IntText(b.limit_value[1])
                        ELSE <<>>
        offset_clause == IF b.offset_value # <<>>
                         THEN <<"OFFSET", Sp>> \o IntText(b.offset_value[1])
                         ELSE <<>>
    IN  <<select_clause, from_clause>>
        \o SelectSeq(<<join_clause, where_clause, group_by_clause, order_by_clause,
                       limit_clause, offset_clause>>,
                     LAMBDA clause : clause # <<>>)

QueryParts(b) ==
    LET ordered == OrderJoins(b.joins)
        join_statements == [i \in 1..Len(ordered) |-> JoinStatement(ordered[i])]
        select_clause == <<"SELECT", Sp>> \o Join(b.select_fields, <<Comma, Sp>>)
        from_clause == <<"FROM", Sp, schema, Dot, base_table, Sp, base_alias>>
        join_clause == Join(join_statements, <<Sp>>)
        where_clause == IF b.where_conditions # <<>>
                        THEN <<"WHERE", Sp>> \o Join(b.where_conditions, <<Sp, "AND", Sp>>)
                        ELSE <<>>
        group_by_clause == IF b.group_by_fields # <<>>
                           THEN <<"GROUP", Sp, "BY", Sp>> \o Join(b.group_by_fields, <<Comma, Sp>>)
                           ELSE <<>>
        order_by_clause == IF b.order_by_clauses # <<>>
                           THEN <<"ORDER", Sp, "BY", Sp>> \o Join(b.order_by_clauses, <<Comma, Sp>>)
                           ELSE <<>>
        limit_clause == IF b.limit_value # <<>>
                        THEN <<"LIMIT", Sp>> \o IntText(b.limit_value[1])
                             \o (IF b.offset_value # <<>>
                                 THEN <<Sp, "OFFSET", Sp>> \o IntText(b.offset_value[1])
                                 ELSE <<>>)
                        ELSE <<>>
    IN  <<select_clause, from_clause>>
        \o SelectSeq(<<join_clause, where_clause, group_by_clause, order_by_clause,
                       limit_clause>>,
                     LAMBDA clause : clause # <<>>)

BuildQuery(b) == Join(QueryParts(b), <<Sp>>)

\* int(value): <<n>>, or <<>> when int raises ValueError
ParseInt(value) ==
    LET t == Strip(value)
    IN  IF Len(t) = 1 /\ t[1] \in Numerals THEN <<ValueOf(t[1])>>
        ELSE IF Len(t) = 2 /\ t[1] = "-" /\ t[2] \in Numerals THEN <<-ValueOf(t[2])>>
        ELSE IF Len(t) = 2 /\ t[1] = "+" /\ t[2] \in Numerals THEN <<ValueOf(t[2])>>
        ELSE <<>>

\* ------------------------------------------------------------- the requests

\* A request is a Python dict of parameters: a sequence of entries with
\* distinct keys, in the order the caller gave them.
Prm(k, v) == [key |-> k, value |-> v]

\* the longest request
MaxParams == 2

\* the longest remainder of a generated filter value
MaxLen == 4

\* the longest operand of a generated filter value that starts with an
\* operator name
MaxOperand == 3

ParamOptions ==
    { Prm("select", <<"industry">>),
      Prm("select", F("c", "companyName") \o <<Comma, Sp>> \o Call("COUNT", F("tr", "transactionId"))),
      Prm("select", Call("DISTINCT", F("rc", "companyName"))),
      Prm("groupBy", <<"industry">>),
      Prm("groupBy", <<"year", Comma, Sp, "country">>),
      Prm("groupBy", F("c", "companyName") \o <<Comma, Sp, "percentAcquired", Comma, "bogus">>),
      Prm("orderBy", <<"size", ":", "desc">>),
      Prm("orderBy", <<"year", Comma, "a", ":", "b", ":", "c">>),
      Prm("limit", <<"5">>),
      Prm("limit", <<"x">>),
      Prm("offset", <<"10">>),
      Prm("offset", <<"-", "5">>),
      Prm("or", <<"status", "=", "1", ";", "year", "=", "2020">>),
      Prm("or", <<"industry", "=", "5", ";", "bogus">>),
      Prm("pattern", <<"ma_transactions">>),
      Prm("pattern", <<"buybacks">>),
      Prm("pattern", <<"bogus">>),
      Prm("pattern", <<>>),
      Prm("type", <<"1">>),
      Prm("type", <<"2">>),
      Prm("type", <<"14">>),
      Prm("type", <<"1", Comma, "2">>),
      Prm("year", <<"gte", ":", "2020">>),
      Prm("year", <<"between", ":", "5", Comma, "10">>),
      Prm("year", <<"between", ":", "5">>),
      Prm("year", F("tr", "statusId")),
      Prm("status", <<"2">>),
      Prm("status", <<"null", ":">>),
      Prm("industry", <<"5", Comma, Sp, "10">>),
      Prm("industry", <<"gte", ":", "5">>),
      Prm("country", <<"1">>),
      Prm("company", <<"like", ":", "%", "x", "%">>),
      Prm("acquirerId", <<"5">>),
      Prm("buyerId", <<"5">>),
      Prm("advisor_type", <<"notnull", ":">>),
      Prm("foo", <<"1">>) }

\* every text of at most n atoms of the alphabet
TextsUpTo(alphabet, n) == UNION {[1..k -> alphabet] : k \in 0..n}

RawAlphabet == {"5", Comma, Sp}

\* a filter on the size field whose value is any remainder, bare or after
\* the prefix "between:", and any short operand after the name of an
\* operator, with the colon and without it, or after a name that is none
GeneratedFilters ==
    {Prm("size", v) : v \in TextsUpTo(RawAlphabet, MaxLen)}
    \cup {Prm("size", <<"between", ":">> \o v) : v \in TextsUpTo(RawAlphabet, MaxLen)}
    \cup {Prm("size", <<op, ":">> \o v) :
              op \in Range(Keys(FILTER_OPERATORS)) \cup {"GTE", "eq"},
              v \in TextsUpTo(RawAlphabet, MaxOperand)}
    \cup {Prm("size", <<op>> \o v) :
              op \in Range(Keys(FILTER_OPERATORS)),
              v \in {t \in TextsUpTo(RawAlphabet, MaxOperand) : t = <<>> \/ t[1] # "5"}}

\* the request of the end-to-end example
EndToEndExample ==
    << Prm("type", <<"14">>),
       Prm("year", <<"gte", ":", "2020">>),
       Prm("groupBy", <<"industry">>),
       Prm("orderBy", <<"value", ":", "desc">>),
       Prm("limit", <<"5">>) >>

Requests ==
    {r \in UNION {[1..n -> ParamOptions] : n \in 0..MaxParams} :
        \A i, j \in 1..Len(r) : i # j => r[i].key # r[j].key}
    \cup {<<p>> : p \in GeneratedFilters}
    \cup {EndToEndExample}

\* --------------------------------------------------------- the state machine

VARIABLES
    catalog,        \* the join catalog put in place of the shipped ones, <<>> when none is
    handler,        \* the controller function that owns the builder
    field,          \* the field argument of handle_distinct_values, <<>> for the others
    peer,           \* the other builder when two are at work, <<>> when there is one
    params,         \* the request being parsed
    pos,            \* index of the next parameter of the loop of parse_request_params
    stage,          \* how far the build has come
    b,              \* the fields of the builder
    error,          \* <<>>, or the <<type, detail>> parse_request_params raised
    ordered_joins,  \* the join keys in the order build_query rendered them
    query           \* the text build_query returned

vars == <<catalog, handler, field, peer, params, pos, stage, b, error, ordered_joins, query>>

Init ==
    /\ catalog = <<>>
    /\ handler = "handle_request"
    /\ field = <<>>
    /\ peer = <<>>
    /\ params \in Requests
    /\ pos = 1
    /\ stage = "Empty"
    /\ b = NewBuilder
    /\ error = <<>>
    /\ ordered_joins = <<>>
    /\ query = <<>>

\* the parameter the loop is at
InLoop ==
    /\ handler = "handle_request"
    /\ stage \in {"Empty", "Accumulating"} /\ pos <= Len(params)

key == params[pos].key

value == params[pos].value

\* the loop goes on to the next parameter
Advance(b2) ==
    /\ b' = b2
    /\ pos' = pos + 1
    /\ stage' = "Accumulating"
    /\ UNCHANGED <<catalog, handler, field, peer, params, error, ordered_joins, query>>

\* parse_request_params, lines 102-108: what the caller is raised
Wrap_Reraised(exc) == exc

Wrap(exc) ==
    IF exc[1] = "ValueError"
    THEN <<"QueryBuildError", <<"Invalid numeric value: ">> \o exc[2]>>
    ELSE <<"QueryBuildError", <<"Error parsing query parameters: ">> \o exc[2]>>

Fail(b2, exc) ==
    /\ b' = b2
    /\ stage' = "Failed"
    /\ error' = Wrap(exc)
    /\ UNCHANGED <<catalog, handler, field, peer, params, pos, ordered_joins, query>>

Finish(r) == IF r.exc = <<>> THEN Advance(r.b) ELSE Fail(r.b, r.exc)

InvalidLiteral(v) == <<"invalid literal for int() with base 10: ">> \o Quoted(v)

ParamSelect == InLoop /\ key = "select" /\ Advance(ProcessSelect(b, value))

ParamGroupBy == InLoop /\ key = "groupBy" /\ Advance(ProcessGroupBy(b, value))

ParamOrderBy == InLoop /\ key = "orderBy" /\ Finish(ProcessOrderBy(b, value))

ParamLimit ==
    /\ InLoop /\ key = "limit"
    /\ IF ParseInt(value) # <<>> THEN Advance([b EXCEPT !.limit_value = ParseInt(value)])
       ELSE Fail(b, <<"ValueError", InvalidLiteral(value)>>)

ParamOffset ==
    /\ InLoop /\ key = "offset"
    /\ IF ParseInt(value) # <<>> THEN Advance([b EXCEPT !.offset_value = ParseInt(value)])
       ELSE Fail(b, <<"ValueError", InvalidLiteral(value)>>)

ParamOr == InLoop /\ key = "or" /\ Advance(ProcessOrCondition(b, value))

\* the pattern is a name: the text of one atom, or the empty string
ParamPattern ==
    /\ InLoop /\ key = "pattern"
    /\ Advance([b EXCEPT !.detected_pattern = IF value = <<>> THEN "" ELSE value[1]])

Reserved == {"select", "groupBy", "orderBy", "limit", "offset", "or", "pattern"}

IsFilterKey(k) == Has(ALL_JOIN_PATHS, k) \/ k \in FieldKeys

ParamFilter ==
    /\ InLoop /\ key \notin Reserved /\ IsFilterKey(key)
    /\ Finish(ProcessFilter(b, key, value))

\* a parameter no branch of the loop takes is passed over
ParamIgnored == InLoop /\ key \notin Reserved /\ ~IsFilterKey(key) /\ Advance(b)

\* parse_request_params, lines 84-90, once the loop has ended
ResolvePattern ==
    /\ handler = "handle_request"
    /\ stage \in {"Empty", "Accumulating"} /\ pos > Len(params)
    /\ LET b1 == IF b.select_fields = <<>>
                 THEN [b EXCEPT !.select_fields = <<<<"tr", Dot, "*">>>>]
                 ELSE b
       IN  b' = IF b1.detected_pattern \in {None, ""}
                THEN [b1 EXCEPT !.detected_pattern = DetectQueryPattern(b1)]
                ELSE b1
    /\ stage' = "PatternResolved"
    /\ UNCHANGED <<catalog, handler, field, peer, params, pos, error, ordered_joins, query>>

\* parse_request_params, line 93
ResolveJoins ==
    /\ stage = "PatternResolved"
    /\ b' = AnalyzeFieldUsage(b)
    /\ stage' = "JoinsResolved"
    /\ UNCHANGED <<catalog, handler, field, peer, params, pos, error, ordered_joins, query>>

\* parse_request_params, lines 95-100, after which it returns
Finalize ==
    /\ handler = "handle_request"
    /\ stage = "JoinsResolved"
    /\ b' = AddDefaultStatusFilter(FoldOrConditions(b))
    /\ stage' = "Finalized"
    /\ UNCHANGED <<catalog, handler, field, peer, params, pos, error, ordered_joins, query>>

\* build_query
Render_ConsumesJoins ==
    /\ stage = "Finalized"
    /\ ordered_joins' = OrderJoins(b.joins)
    /\ query' = BuildQuery(b)
    /\ stage' = "Rendered"
    /\ b' = WithJoins(b, <<>>)
    /\ UNCHANGED <<catalog, handler, field, peer, params, pos, error>>

Render ==
    /\ stage = "Finalized"
    /\ ordered_joins' = OrderJoins(b.joins)
    /\ query' = BuildQuery(b)
    /\ stage' = "Rendered"
    /\ UNCHANGED <<catalog, handler, field, peer, params, pos, b, error>>

Next ==
    \/ ParamSelect
    \/ ParamGroupBy
    \/ ParamOrderBy
    \/ ParamLimit
    \/ ParamOffset
    \/ ParamOr
    \/ ParamPattern
    \/ ParamFilter
    \/ ParamIgnored
    \/ ResolvePattern
    \/ ResolveJoins
    \/ Finalize
    \/ Render

Spec == Init /\ [][Next]_vars

\* ------------------------------------------------------ build_query, again

\* build_query called once more on the builder it has rendered
RenderAgain ==
    /\ handler = "handle_request"
    /\ stage = "Rendered"
    /\ ordered_joins' = OrderJoins(b.joins)
    /\ query' = BuildQuery(b)
    /\ stage' = "RenderedAgain"
    /\ UNCHANGED <<catalog, handler, field, peer, params, pos, b, error>>

NextRenders ==
    \/ Next
    \/ RenderAgain

SpecRenders == Init /\ [][NextRenders]_vars

\* ------------------------------------------------- the distinct-values caller

\* handle_distinct_values: field_mapping
DistinctFieldMapping ==
    << M("industry", F("si", "simpleIndustryDescription")),
       M("country", F("geo", "country")),
       M("type", F("tt", "transactionIdTypeName")),
       M("year", F("tr", "announcedYear")),
       M("month", F("tr", "announcedMonth")),
       M("company", F("c", "companyName")),
       M("status", F("ts", "statusName")) >>

\* db_field = field_mapping.get(field, field)
DbField(f) ==
    IF Len(f) = 1 /\ Has(DistinctFieldMapping, f[1]) THEN Get(DistinctFieldMapping, f[1]).val
    ELSE f

\* the where_conditions handle_distinct_values builds from its params
DistinctConditions(ps) ==
    LET when(k, cond) == IF Has(ps, k) THEN <<cond>> ELSE <<>>
        v(k) == IF Has(ps, k) THEN Get(ps, k).value ELSE <<>>
    IN  when("type", F("tr", "transactionIdTypeId") \o <<Sp, "=", Sp>> \o Quoted(v("type")))
        \o when("year", F("tr", "announcedYear") \o <<Sp, "=", Sp>> \o v("year"))
        \o when("country", F("geo", "countryId") \o <<Sp, "=", Sp>> \o Quoted(v("country")))
        \o when("industry",
                F("si", "simpleIndustryId") \o <<Sp, "=", Sp>> \o Quoted(v("industry")))

DistinctFields ==
    {<<"industry">>, <<"country">>, <<"type">>, <<"year">>, <<"company">>, <<"status">>,
     <<"bogus">>, F("c", "companyName")}

DistinctOptions ==
    { Prm("type", <<"2">>), Prm("type", <<"1">>), Prm("year", <<"2020">>),
      Prm("country", <<"1">>), Prm("industry", <<"5">>),
      Prm("limit", <<"5">>), Prm("limit", <<"x">>) }

DistinctRequests ==
    {r \in UNION {[1..n -> DistinctOptions] : n \in 0..MaxParams} :
        \A i, j \in 1..Len(r) : i # j => r[i].key # r[j].key}

\* a call of handle_request or of handle_distinct_values
InitCallers ==
    /\ catalog = <<>>
    /\ \/ handler = "handle_request" /\ field = <<>> /\ params \in Requests
       \/ handler = "handle_distinct_values" /\ field \in DistinctFields
          /\ params \in DistinctRequests
    /\ peer = <<>>
    /\ pos = 1
    /\ stage = "Empty"
    /\ b = NewBuilder
    /\ error = <<>>
    /\ ordered_joins = <<>>
    /\ query = <<>>

\* handle_distinct_values, lines 171-202: the fields it sets on a new builder
DistinctSetup ==
    /\ handler = "handle_distinct_values" /\ stage = "Empty"
    /\ LET b1 == [NewBuilder EXCEPT
                     !.select_fields = << Call("DISTINCT", DbField(field))
                                          \o <<Sp, "AS", Sp, "value">> >>,
                     !.where_conditions = DistinctConditions(params),
                     !.order_by_clauses = << <<"value", Sp, "ASC">> >>]
           limit == IF Has(params, "limit") THEN Get(params, "limit").value ELSE <<>>
       IN  IF Has(params, "limit") /\ ParseInt(limit) = <<>>
           THEN /\ b' = b1
                /\ stage' = "Failed"
                /\ error' = <<"DatabaseError",
                              <<"Error retrieving distinct values: ">> \o InvalidLiteral(limit)>>
           ELSE /\ b' = IF Has(params, "limit")
                         THEN [b1 EXCEPT !.limit_value = ParseInt(limit)]
                         ELSE b1
                /\ stage' = "Accumulating"
                /\ error' = error
    /\ UNCHANGED <<catalog, handler, field, peer, params, pos, ordered_joins, query>>

\* handle_distinct_values, lines 205-206
DistinctJoins ==
    /\ handler = "handle_distinct_values" /\ stage = "Accumulating"
    /\ b' = AnalyzeFieldUsage(WithJoins(b, CheckFieldForJoin(b.joins, DbField(field))))
    /\ stage' = "JoinsResolved"
    /\ UNCHANGED <<catalog, handler, field, peer, params, pos, error, ordered_joins, query>>

\* handle_distinct_values, line 209
DistinctRender ==
    /\ handler = "handle_distinct_values" /\ stage = "JoinsResolved"
    /\ ordered_joins' = OrderJoins(b.joins)
    /\ query' = BuildQuery(b)
    /\ stage' = "Rendered"
    /\ UNCHANGED <<catalog, handler, field, peer, params, pos, b, error>>

NextCallers ==
    \/ Next
    \/ DistinctSetup
    \/ DistinctJoins
    \/ DistinctRender

SpecCallers == InitCallers /\ [][NextCallers]_vars

\* ------------------------------------------------- the resolver on any catalog

\* the deepest nesting of calls the interpreter allows
RecursionLimit == 4

\* the longest list of prerequisites of a catalog entry
MaxRequires == 2

CatalogNames == {"a", "b", "c"}

\* the lists of prerequisites an entry may name: no name twice
RequiresOptions ==
    {r \in UNION {[1..n -> CatalogNames] : n \in 0..MaxRequires} :
        \A i, j \in 1..Len(r) : i # j => r[i] # r[j]}

\* the catalogs with the entries a, b, c, whatever their prerequisites:
\* chains, shared prerequisites, cycles, entries that require themselves
Catalogs ==
    { << J("a", "A", "a", Eq(F("tr", "x"), F("a", "x")), ra),
         J("b", "B", "b", Eq(F("tr", "x"), F("b", "x")), rb),
         J("c", "C", "c", Eq(F("tr", "x"), F("c", "x")), rc) >> :
      ra \in RequiresOptions, rb \in RequiresOptions, rc \in RequiresOptions }

\* _add_join_with_dependencies over the catalog cat, called at nesting
\* depth: the active joins after it, and the RecursionError the interpreter
\* raises when the calls nest deeper than it allows
RECURSIVE AddJoinWithDependenciesIn(_, _, _, _)
RECURSIVE AddDependenciesIn(_, _, _, _)
AddDependenciesIn(cat, joins, requires, depth) ==
    IF requires = <<>> THEN [joins |-> joins, exc |-> <<>>]
    ELSE LET r == AddJoinWithDependenciesIn(cat, joins, Head(requires), depth)
         IN  IF r.exc # <<>> THEN r
             ELSE AddDependenciesIn(cat, r.joins, Tail(requires), depth)

AddJoinWithDependenciesIn(cat, joins, join_key, depth) ==
    IF depth > RecursionLimit
    THEN [joins |-> joins,
          exc |-> <<"RecursionError", <<"maximum recursion depth exceeded">>>>]
    ELSE IF join_key \in Range(joins) THEN [joins |-> joins, exc |-> <<>>]
    ELSE IF ~Has(cat, join_key) THEN [joins |-> joins, exc |-> <<>>]
    ELSE LET r == AddDependenciesIn(cat, joins, Get(cat, join_key).requires, depth + 1)
         IN  IF r.exc # <<>> THEN r
             ELSE [joins |-> Append(r.joins, join_key), exc |-> <<>>]

\* _order_joins over the catalog cat
RECURSIVE OrderRoundsIn(_, _, _)
OrderRoundsIn(cat, ordered, remaining_joins) ==
    IF remaining_joins = <<>> THEN ordered
    ELSE LET isReady(j) == \A dep \in Range(Get(cat, j).requires) :
                               dep \notin Range(remaining_joins)
             found == SelectSeq(remaining_joins, isReady)
             ready_joins == IF found = <<>> THEN <<remaining_joins[1]>> ELSE found
         IN  OrderRoundsIn(cat, ordered \o ready_joins,
                           SelectSeq(remaining_joins, LAMBDA j : j \notin Range(ready_joins)))

\* a new builder over one of the catalogs
InitCatalogs ==
    /\ catalog \in Catalogs
    /\ handler = "none"
    /\ field = <<>>
    /\ peer = <<>>
    /\ params = <<>>
    /\ pos = 1
    /\ stage = "Empty"
    /\ b = NewBuilder
    /\ error = <<>>
    /\ ordered_joins = <<>>
    /\ query = <<>>

\* a call of _add_join_with_dependencies, for any join name
RequireJoin ==
    /\ handler = "none" /\ stage \in {"Empty", "Accumulating"}
    /\ \E join_key \in CatalogNames \cup {"z"} :
           LET r == AddJoinWithDependenciesIn(catalog, b.joins, join_key, 0)
           IN  /\ b' = WithJoins(b, r.joins)
               /\ stage' = IF r.exc = <<>> THEN "Accumulating" ELSE "Failed"
               /\ error' = r.exc
    /\ UNCHANGED <<catalog, handler, field, peer, params, pos, ordered_joins, query>>

\* a call of _order_joins
OrderActiveJoins ==
    /\ handler = "none" /\ stage = "Accumulating"
    /\ ordered_joins' = OrderRoundsIn(catalog, <<>>, b.joins)
    /\ stage' = "Rendered"
    /\ UNCHANGED <<catalog, handler, field, peer, params, pos, b, error, query>>

NextCatalogs ==
    \/ RequireJoin
    \/ OrderActiveJoins

SpecCatalogs == InitCatalogs /\ [][NextCatalogs]_vars

\* ------------------------------------------- activations on the shipped catalogs

\* the most joins a builder may hold for one more to be required of it
MaxActive == 2

\* the names a join may be required by: the keys of both catalogs, and a
\* name that is in neither
JoinNames == Range(Keys(ALL_JOIN_PATHS)) \cup Range(Keys(JOIN_PATHS)) \cup {"z"}

\* a new builder, of which joins are required one after the other
InitActivations ==
    /\ catalog = <<>>
    /\ handler = "resolver"
    /\ field = <<>>
    /\ peer = <<>>
    /\ params = <<>>
    /\ pos = 1
    /\ stage = "Empty"
    /\ b = NewBuilder
    /\ error = <<>>
    /\ ordered_joins = <<>>
    /\ query = <<>>

\* a call of _add_join_with_dependencies, for any join name
Activate ==
    /\ handler = "resolver" /\ stage \in {"Empty", "Accumulating"}
    /\ Len(b.joins) <= MaxActive
    /\ \E join_key \in JoinNames : b' = WithJoins(b, AddJoinWithDependencies(b.joins, join_key))
    /\ stage' = "Accumulating"
    /\ UNCHANGED <<catalog, handler, field, peer, params, pos, error, ordered_joins, query>>

\* a call of _order_joins
OrderActivated ==
    /\ handler = "resolver" /\ stage = "Accumulating"
    /\ ordered_joins' = OrderJoins(b.joins)
    /\ stage' = "Rendered"
    /\ UNCHANGED <<catalog, handler, field, peer, params, pos, b, error, query>>

NextActivations ==
    \/ Activate
    \/ OrderActivated

SpecActivations == InitActivations /\ [][NextActivations]_vars

\* ------------------------------------------------------ two builders at work

\* parse_request_params as a function of the request: one pass of its loop
ParseParam(bb, p) ==
    CASE p.key = "select" -> Ok(ProcessSelect(bb, p.value))
      [] p.key = "groupBy" -> Ok(ProcessGroupBy(bb, p.value))
      [] p.key = "orderBy" -> ProcessOrderBy(bb, p.value)
      [] p.key = "limit" ->
             IF ParseInt(p.value) # <<>> THEN Ok([bb EXCEPT !.limit_value = ParseInt(p.value)])
             ELSE Raise(bb, "ValueError", InvalidLiteral(p.value))
      [] p.key = "offset" ->
             IF ParseInt(p.value) # <<>> THEN Ok([bb EXCEPT !.offset_value = ParseInt(p.value)])
             ELSE Raise(bb, "ValueError", InvalidLiteral(p.value))
      [] p.key = "or" -> Ok(ProcessOrCondition(bb, p.value))
      [] p.key = "pattern" ->
             Ok([bb EXCEPT !.detected_pattern = IF p.value = <<>> THEN "" ELSE p.value[1]])
      [] p.key \notin Reserved /\ IsFilterKey(p.key) -> ProcessFilter(bb, p.key, p.value)
      [] OTHER -> Ok(bb)

\* the loop, which ends at the first parameter that raises
RECURSIVE ParseParams(_, _)
ParseParams(bb, ps) ==
    IF ps = <<>> THEN Ok(bb)
    ELSE LET r == ParseParam(bb, Head(ps))
         IN  IF r.exc # <<>> THEN r ELSE ParseParams(r.b, Tail(ps))

\* lines 84-100: what follows the loop
AfterLoop(bb) ==
    LET b1 == IF bb.select_fields = <<>>
              THEN [bb EXCEPT !.select_fields = <<<<"tr", Dot, "*">>>>]
              ELSE bb
        b2 == IF b1.detected_pattern \in {None, ""}
              THEN [b1 EXCEPT !.detected_pattern = DetectQueryPattern(b1)]
              ELSE b1
    IN  AddDefaultStatusFilter(FoldOrConditions(AnalyzeFieldUsage(b2)))

\* the builder after parse_request_params and the error it raised
ParseRequestParams(ps) ==
    LET r == ParseParams(NewBuilder, ps)
    IN  IF r.exc # <<>> THEN [b |-> r.b, exc |-> Wrap(r.exc)] ELSE Ok(AfterLoop(r.b))

\* handle_request on a builder of its own: the query it renders, <<>> when
\* parse_request_params raises
QueryAlone(ps) ==
    IF ParseRequestParams(ps).exc # <<>> THEN <<>> ELSE BuildQuery(ParseRequestParams(ps).b)

\* the requests of two calls that are served at the same time
PairRequests ==
    { <<>>,
      <<Prm("type", <<"2">>)>>,
      <<Prm("acquirerId", <<"5">>), Prm("limit", <<"5">>)>>,
      <<Prm("groupBy", <<"industry">>), Prm("or", <<"industry", "=", "5", ";", "bogus">>)>>,
      <<Prm("select", Call("DISTINCT", F("rc", "companyName"))), Prm("limit", <<"x">>)>>,
      <<Prm("company", <<"like", ":", "%", "x", "%">>), Prm("pattern", <<"buybacks">>)>>,
      <<Prm("orderBy", <<"size", ":", "desc">>), Prm("offset", <<"10">>)>>,
      <<Prm("foo", <<"1">>), Prm("type", <<"14">>)>> }

\* the builder at work, as the record its owner holds while the other one
\* is at work
Instance(id) ==
    [id |-> id, params |-> params, pos |-> pos, stage |-> stage, b |-> b, error |-> error,
     ordered_joins |-> ordered_joins, query |-> query]

\* two calls of handle_request, each with a new builder
InitTwo ==
    /\ catalog = <<>>
    /\ handler = "handle_request"
    /\ field = <<>>
    /\ params \in PairRequests
    /\ \E ps \in PairRequests :
           peer = [id |-> 2, params |-> ps, pos |-> 1, stage |-> "Empty", b |-> NewBuilder,
                   error |-> <<>>, ordered_joins |-> <<>>, query |-> <<>>]
    /\ pos = 1
    /\ stage = "Empty"
    /\ b = NewBuilder
    /\ error = <<>>
    /\ ordered_joins = <<>>
    /\ query = <<>>

\* the host goes on with the other call: every field of a builder is its
\* own, set in __init__, so the builder at work is put aside whole
Switch_SharedJoins ==
    /\ DOMAIN peer # {}
    /\ params' = peer.params
    /\ pos' = peer.pos
    /\ stage' = peer.stage
    /\ b' = WithJoins(peer.b, b.joins)
    /\ error' = peer.error
    /\ ordered_joins' = peer.ordered_joins
    /\ query' = peer.query
    /\ peer' = Instance(3 - peer.id)
    /\ UNCHANGED <<catalog, handler, field>>

Switch ==
    /\ DOMAIN peer # {}
    /\ params' = peer.params
    /\ pos' = peer.pos
    /\ stage' = peer.stage
    /\ b' = peer.b
    /\ error' = peer.error
    /\ ordered_joins' = peer.ordered_joins
    /\ query' = peer.query
    /\ peer' = Instance(3 - peer.id)
    /\ UNCHANGED <<catalog, handler, field>>

NextTwo ==
    \/ Next
    \/ Switch

SpecTwo == InitTwo /\ [][NextTwo]_vars

\* ------------------------------------------------------------------ claims

\* the first parameter of the request has been processed and the loop goes on
AfterFirst == Len(params) >= 1 /\ pos = 2 /\ stage = "Accumulating"

\* the first parameter of the request is a filter
FirstIsFilter == Len(params) >= 1 /\ params[1].key \notin Reserved /\ IsFilterKey(params[1].key)

\* the field the first parameter filters on
FirstField == MapFieldName(<<params[1].key>>)

\* the number of commas of a text
Commas(t) == Cardinality({i \in 1..Len(t) : t[i] = Comma})

\* the transitive prerequisites the catalog names for a join
RECURSIVE Prerequisites(_)
Prerequisites(k) ==
    IF ~KnownJoin(k) THEN {}
    ELSE UNION {{d} \cup Prerequisites(d) : d \in Range(JoinInfo(k).requires)}

\* the alias of an active join
AliasOf(k) == JoinInfo(k).alias

\* C1: in every state of a build the active join list holds each join name
\* at most once, holds every transitive prerequisite of each of its joins,
\* and requiring any of its joins again would leave it as it is.
C1_ActiveJoinsClosed ==
    /\ \A i, j \in 1..Len(b.joins) : i # j => b.joins[i] # b.joins[j]
    /\ \A k \in Range(b.joins) : Prerequisites(k) \subseteq Range(b.joins)
    /\ \A k \in Range(b.joins) : AddJoinWithDependencies(b.joins, k) = b.joins

\* C1 witness: a build whose pattern joins, special-parameter joins and
\* alias-triggered joins required the same joins several times over.
C1_Witness ==
    /\ stage = "JoinsResolved"
    /\ {"acquirer_company", "company_rel", "transaction_company_rel", "related_company",
        "transaction_type"} \subseteq Range(b.joins)

\* the aliases of the JOIN statements of a query text, in order: each
\* statement reads JOIN <schema>.<table> <alias> ON <condition>
EmittedAliases(q) ==
    LET at == {i \in 1..Len(q) : q[i] = "JOIN"}
        nth(n) == CHOOSE i \in at : Cardinality({j \in at : j < i}) = n - 1
    IN  [n \in 1..Cardinality(at) |-> q[nth(n) + 6]]

\* C2: the joins build_query emitted are the active joins, each exactly
\* once, every join after each of its prerequisites that is active.
C2_RenderedOrderTopological ==
    stage = "Rendered" =>
        /\ Len(ordered_joins) = Len(b.joins)
        /\ Range(ordered_joins) = Range(b.joins)
        /\ EmittedAliases(query) = [i \in 1..Len(ordered_joins) |-> AliasOf(ordered_joins[i])]
        /\ \A i \in 1..Len(ordered_joins) :
               \A d \in Range(JoinInfo(ordered_joins[i]).requires) \cap Range(b.joins) :
                   \E k \in 1..(i - 1) : ordered_joins[k] = d

\* C2 witness: a rendered query whose join order is not the insertion order.
C2_Witness ==
    /\ stage = "Rendered"
    /\ Len(ordered_joins) >= 4
    /\ ordered_joins # b.joins

\* C4: no two active joins have the same alias.
C4_UniqueAliases ==
    \A i, j \in 1..Len(b.joins) : i # j => AliasOf(b.joins[i]) # AliasOf(b.joins[j])

\* C5: every alias the condition of an emitted join refers to is the base
\* alias, the join's own alias or the alias of a join emitted before it.
C5_ConditionAliasesJoined ==
    stage = "Rendered" =>
        \A i \in 1..Len(ordered_joins) :
            \A a \in Range(FieldRefs(JoinInfo(ordered_joins[i]).condition, 1)) :
                \/ a = base_alias
                \/ a = AliasOf(ordered_joins[i])
                \/ \E k \in 1..(i - 1) : AliasOf(ordered_joins[k]) = a

\* the first parameter is a between filter, and what follows "between:"
FirstIsBetween == FirstIsFilter /\ StartsWith(params[1].value, <<"between", ":">>)

Remainder == SubSeq(params[1].value, 3, Len(params[1].value))

\* C6: a filter 'between:<a>,<b>' appends the one predicate
\* <field> BETWEEN '<a>' AND '<b>', both bounds trimmed; 'between:<a>', with
\* no comma, fails with a build error and appends no predicate.
C6_BetweenTranslated ==
    (FirstIsBetween /\ (pos > 1 \/ stage = "Failed")) =>
        /\ Commas(Remainder) = 1 =>
               LET bounds == Split(Remainder, Comma)
               IN  /\ stage # "Failed" \/ pos > 1
                   /\ AfterFirst =>
                          b.where_conditions =
                              << FirstField \o <<Sp, "BETWEEN", Sp, Quote>> \o Strip(bounds[1])
                                 \o <<Quote, Sp, "AND", Sp, Quote>> \o Strip(bounds[2])
                                 \o <<Quote>> >>
        /\ Commas(Remainder) = 0 =>
               /\ stage = "Failed" /\ pos = 1
               /\ error # <<>> /\ error[1] = "QueryBuildError"
               /\ b.where_conditions = <<>>

\* C6 witness: 'between:5, 5' translated, the blank of the second bound gone.
C6_Witness ==
    /\ AfterFirst
    /\ params[1] = Prm("size", <<"between", ":", "5", Comma, Sp, "5">>)
    /\ b.where_conditions =
           << <<"tr", Dot, "transactionSize", Sp, "BETWEEN", Sp, Quote, "5", Quote, Sp, "AND",
                Sp, Quote, "5", Quote>> >>

\* C7: a between filter is translated only when its remainder holds exactly
\* one comma and two bounds that are not empty; any other remainder fails
\* with a build error.
C7_BetweenValidated ==
    (FirstIsBetween /\ (pos > 1 \/ stage = "Failed")) =>
        LET valid == /\ Commas(Remainder) = 1
                     /\ \A i \in 1..2 : Strip(Split(Remainder, Comma)[i]) # <<>>
        IN  IF valid THEN pos > 1
            ELSE stage = "Failed" /\ pos = 1 /\ error # <<>> /\ error[1] = "QueryBuildError"

\* the value of the first parameter starts with no operator prefix
FirstHasNoOperator ==
    \A i \in 1..Len(FILTER_OPERATORS) :
        ~StartsWith(params[1].value, <<FILTER_OPERATORS[i].key, ":">>)

\* C8: a filter value with no operator prefix that holds a comma appends the
\* one predicate <field> IN ('t1', ..., 'tn'), the ti being the pieces of the
\* value between its commas, trimmed, all of them and in their order.
C8_SetMembership ==
    (FirstIsFilter /\ FirstHasNoOperator /\ Contains(params[1].value, Comma)
     /\ (pos > 1 \/ stage = "Failed")) =>
        LET pieces == Split(params[1].value, Comma)
            tokens == [i \in 1..Len(pieces) |-> <<Quote>> \o Strip(pieces[i]) \o <<Quote>>]
        IN  /\ Len(pieces) = Commas(params[1].value) + 1
            /\ stage # "Failed" \/ pos > 1
            /\ AfterFirst =>
                   b.where_conditions =
                       << FirstField \o <<Sp, "IN", Sp, "(">> \o Join(tokens, <<Comma, Sp>>)
                          \o <<")">> >>

\* C8 witness: 'industry=5, 10' translated to si.simpleIndustryId IN ('5', '10').
C8_Witness ==
    /\ AfterFirst
    /\ params[1] = Prm("industry", <<"5", Comma, Sp, "10">>)
    /\ b.where_conditions =
           << <<"si", Dot, "simpleIndustryId", Sp, "IN", Sp, "(", Quote, "5", Quote, Comma, Sp,
                Quote, "10", Quote, ")">> >>

\* the request constrains the status field: by a filter on status, or by an
\* OR-group that names it
ConstrainsStatus ==
    \E i \in 1..Len(params) :
        \/ params[i].key = "status"
        \/ params[i].key = "or" /\ Contains(params[i].value, "status")

\* how often a condition occurs among the predicates
Occurrences(c) == Cardinality({i \in 1..Len(b.where_conditions) : b.where_conditions[i] = c})

\* C9: after finalize the predicates hold the default status predicate
\* exactly once when no filter of the request constrains the status field,
\* and not at all when one does.
C9_DefaultStatusInjected ==
    stage \in {"Finalized", "Rendered"} =>
        IF ConstrainsStatus THEN Occurrences(DefaultStatusCondition) = 0
        ELSE Occurrences(DefaultStatusCondition) = 1

\* the only filter of the request is type = "2", and it carries no pattern
OnlyFilterIsTypeTwo ==
    /\ \E i \in 1..Len(params) : params[i] = Prm("type", <<"2">>)
    /\ \A i \in 1..Len(params) :
           \/ params[i].key = "type"
           \/ params[i].key \in (Reserved \ {"pattern"})
           \/ params[i].key \notin Reserved /\ ~IsFilterKey(params[i].key)

\* C10: for the filters {type: "2"} and no explicit pattern the detected
\* pattern is ma_transactions and every recommended join of that pattern is
\* active once parse_request_params has resolved the joins.
C10_MaPatternJoins ==
    (OnlyFilterIsTypeTwo /\ stage \in {"JoinsResolved", "Finalized", "Rendered"}) =>
        /\ b.detected_pattern = "ma_transactions"
        /\ {"transaction_type", "target_company", "transaction_rel", "relation_type",
            "company_rel", "acquirer_company"} \subseteq Range(b.joins)

\* C10 witness: the request {type: "2"}, rendered.
C10_Witness ==
    /\ stage = "Rendered"
    /\ params = <<Prm("type", <<"2">>)>>
    /\ b.detected_pattern = "ma_transactions"

\* the place of a join in the rendered order, 0 when it is not rendered
PlaceOf(k) ==
    IF k \in Range(ordered_joins)
    THEN CHOOSE i \in 1..Len(ordered_joins) : ordered_joins[i] = k
    ELSE 0

\* a select entry that gives an expression an alias: <expression> AS <alias>
IsAliased(entry) ==
    Len(entry) >= 5 /\ entry[Len(entry) - 2] = "AS" /\ entry[Len(entry) - 1] = Sp

\* C11: the end-to-end example renders a query that selects the grouped
\* industry field and an aggregate under an alias, filters on type equality
\* and on a lower bound of the year, groups by the industry field, orders
\* descending, is limited to 5 rows, and joins the industry table after the
\* company table.
C11_EndToEndExample ==
    (params = EndToEndExample /\ stage = "Rendered") =>
        LET industry == MapFieldName(<<"industry">>)
        IN  /\ industry \in Range(b.select_fields)
            /\ \E i \in 1..Len(b.select_fields) : IsAliased(b.select_fields[i])
            /\ (F("tr", "transactionIdTypeId") \o <<Sp, "=", Sp, Quote, "14", Quote>>)
                   \in Range(b.where_conditions)
            /\ (F("tr", "announcedYear") \o <<Sp, ">=", Sp, Quote, "2020", Quote>>)
                   \in Range(b.where_conditions)
            /\ b.group_by_fields = <<industry>>
            /\ Len(b.order_by_clauses) = 1
            /\ b.order_by_clauses[1][Len(b.order_by_clauses[1])] = "DESC"
            /\ b.limit_value = <<5>>
            /\ 0 < PlaceOf("company") /\ PlaceOf("company") < PlaceOf("industry")
            /\ Contains(query, "LIMIT") /\ Contains(query, "GROUP")

\* the place of a stage in the order Empty, Accumulating, PatternResolved,
\* JoinsResolved, Rendered; Finalized is JoinsResolved with the default
\* filter added, on the way to Rendered
StageRank(s) ==
    CASE s = "Empty" -> 0
      [] s = "Accumulating" -> 1
      [] s = "PatternResolved" -> 2
      [] s \in {"JoinsResolved", "Finalized"} -> 3
      [] s = "Rendered" -> 4
      [] OTHER -> 5

\* a step the order of the stages allows: the next parameter while
\* accumulating, the next stage, or the end of a build that raised; a
\* request with no parameter accumulates nothing
StepInOrder ==
    \/ stage \notin {"Rendered", "Failed"} /\ stage' = "Failed"
    \/ stage = "Accumulating" /\ stage' = "Accumulating"
    \/ stage = "JoinsResolved" /\ stage' = "Finalized"
    \/ stage \notin {"Rendered", "Failed"} /\ stage' # "Failed"
       /\ StageRank(stage') = StageRank(stage) + 1
    \/ stage = "Empty" /\ params = <<>> /\ stage' = "PatternResolved"

\* C12: every build, whichever controller function owns the builder, goes
\* through the stages Empty, Accumulating, PatternResolved, JoinsResolved,
\* Rendered in that order, skipping none and entering none again, and does
\* nothing to the builder once it is rendered.
C12_StagesInOrder == [][StepInOrder]_vars

\* the i-th parameter is a limit or an offset whose value int() rejects
BadPagination(i) ==
    params[i].key \in {"limit", "offset"} /\ ParseInt(params[i].value) = <<>>

RaisedByFilter == ProcessFilter(b, params[pos].key, params[pos].value).exc

\* C14: a QueryBuildError raised while a filter parameter is processed is
\* what parse_request_params raises to its caller, with the same kind and the
\* same detail.
C14_BuildErrorUnchanged ==
    (/\ stage = "Failed"
     /\ params[pos].key \notin Reserved /\ IsFilterKey(params[pos].key)
     /\ RaisedByFilter # <<>> /\ RaisedByFilter[1] = "QueryBuildError")
        => error = RaisedByFilter

\* C15: in every state of a build the limit and the offset of the builder
\* are each unset or an integer that is not negative.
C15_PaginationNotNegative ==
    /\ b.limit_value = <<>> \/ b.limit_value[1] >= 0
    /\ b.offset_value = <<>> \/ b.offset_value[1] >= 0

\* the static mapping of the resolver: FIELD_MAPPINGS, and for the names it
\* lacks the mappings local to _map_field_name
StaticMapping == DictMerge(LocalMappings, FIELD_MAPPINGS)

\* what the claim says resolve(name) returns
Resolved(name) ==
    IF Contains(name, Dot) THEN name
    ELSE IF Len(name) = 1 /\ Has(StaticMapping, name[1]) THEN Get(StaticMapping, name[1]).val
    ELSE name

\* the names of the groupBy value the request starts with
FirstGroupByNames ==
    LET pieces == Split(params[1].value, Comma)
    IN  [i \in 1..Len(pieces) |-> Strip(pieces[i])]

\* C16: resolving a name never fails and gives the name itself when it
\* holds a '.', else the entry of the static mapping for it when there is
\* one, else the name itself; seen on the names of a groupBy parameter, each
\* of which is resolved into the group-by list.
C16_ResolveTotal ==
    (Len(params) >= 1 /\ params[1].key = "groupBy") =>
        /\ ~(stage = "Failed" /\ pos = 1)
        /\ pos > 1 =>
               SubSeq(b.group_by_fields, 1, Len(FirstGroupByNames))
                   = [i \in 1..Len(FirstGroupByNames) |-> Resolved(FirstGroupByNames[i])]

\* C16 witness: a qualified name, a name only the local mappings have and a
\* name no mapping has, resolved.
C16_Witness ==
    /\ AfterFirst
    /\ params[1].key = "groupBy"
    /\ b.group_by_fields =
           <<F("c", "companyName"), F("tcr", "percentAcquired"), <<"bogus">>>>

\* the request carries a select parameter
HasSelectParam == \E i \in 1..Len(params) : params[i].key = "select"

\* the select entry that stands for all base columns
AllBaseColumns == <<base_alias, Dot, "*">>

\* C17: after finalize the select list is the one entry for all base
\* columns when the request carried no select parameter, whatever else it
\* carried; with a select parameter that entry is not added.
C17_SelectDefaultsToAll ==
    (handler = "handle_request" /\ stage \in {"Finalized", "Rendered"}) =>
        IF HasSelectParam THEN AllBaseColumns \notin Range(b.select_fields)
        ELSE b.select_fields = <<AllBaseColumns>>

\* C18: over any catalog, one with a cycle of prerequisites included,
\* requiring a join ends without an error, and the order of the active joins
\* holds each of them exactly once.
C18_CyclesTolerated ==
    /\ stage # "Failed"
    /\ stage = "Rendered" =>
           /\ Len(ordered_joins) = Len(b.joins)
           /\ Range(ordered_joins) = Range(b.joins)

\* the step of resolveOrder at which an active join is ready: the first
\* when none of its prerequisites is active, else the one after the last
\* step at which an active prerequisite of it is ready
RECURSIVE ReadyAt(_)
ReadyAt(k) ==
    LET deps == Range(JoinInfo(k).requires) \cap Range(b.joins)
    IN  IF deps = {} THEN 1
        ELSE 1 + (CHOOSE n \in {ReadyAt(d) : d \in deps} :
                      \A d \in deps : ReadyAt(d) <= n)

\* C19: active joins that are ready at the same step of the ordering are
\* rendered in the order in which they were inserted into the active list.
C19_TiesKeepInsertionOrder ==
    stage = "Rendered" =>
        \A i, j \in 1..Len(b.joins) :
            (i < j /\ ReadyAt(b.joins[i]) = ReadyAt(b.joins[j])) =>
                PlaceOf(b.joins[i]) < PlaceOf(b.joins[j])

\* C19 witness: a rendered order that differs from the insertion order, with
\* three joins ready at the first step.
C19_Witness ==
    /\ stage = "Rendered"
    /\ ordered_joins # b.joins
    /\ Cardinality({i \in 1..Len(b.joins) : ReadyAt(b.joins[i]) = 1}) >= 3

\* the catalog entries with a given alias, as places in ALL_JOIN_PATHS and
\* in JOIN_PATHS
InAllWithAlias(q) == {i \in 1..Len(ALL_JOIN_PATHS) : ALL_JOIN_PATHS[i].alias = q}

InLocalWithAlias(q) == {i \in 1..Len(JOIN_PATHS) : JOIN_PATHS[i].alias = q}

Least(S) == CHOOSE i \in S : \A j \in S : i <= j

\* the first catalog entry with a given alias: ALL_JOIN_PATHS in iteration
\* order, then JOIN_PATHS
FirstWithAlias(q) ==
    IF InAllWithAlias(q) # {} THEN ALL_JOIN_PATHS[Least(InAllWithAlias(q))].key
    ELSE JOIN_PATHS[Least(InLocalWithAlias(q))].key

\* the qualifier of a field, "" when it has none
QualifierOf(f) == IF Len(f) >= 2 /\ f[2] = Dot THEN f[1] ELSE ""

\* the loop translates the filter parameter it is at into a predicate
FilterTranslated ==
    /\ InLoop /\ key \notin Reserved /\ IsFilterKey(key)
    /\ pos' = pos + 1

\* what the alias check of a predicate on the qualifier q makes of the
\* active joins
AliasChecked(q) ==
    IF \/ q \in {"", base_alias}
       \/ \E i \in 1..Len(b.joins) : AliasOf(b.joins[i]) = q
       \/ InAllWithAlias(q) \cup InLocalWithAlias(q) = {}
    THEN b'.joins = b.joins
    ELSE LET first == FirstWithAlias(q)
             added == SubSeq(b'.joins, Len(b.joins) + 1, Len(b'.joins))
         IN  /\ Len(b'.joins) > Len(b.joins)
             /\ SubSeq(b'.joins, 1, Len(b.joins)) = b.joins
             /\ added[Len(added)] = first
             /\ Range(added) = ({first} \cup Prerequisites(first)) \ Range(b.joins)

\* C20: every predicate the filter translation emits has the qualifier of
\* its field checked: a qualifier that is not the base alias, is the alias of
\* no active join and is the alias of a catalog entry activates the first
\* such entry (ALL_JOIN_PATHS in iteration order, then JOIN_PATHS) with its
\* prerequisites and nothing else; any other qualifier leaves the active
\* joins as they are.
C20_FilterAliasCheck ==
    [][FilterTranslated =>
          /\ Len(b'.where_conditions) = Len(b.where_conditions) + 1
          /\ AliasChecked(QualifierOf(MapFieldName(<<key>>)))]_vars

\* C20 witness: a second filter whose qualifier is the alias of several
\* catalog entries has activated joins.
C20_Witness ==
    /\ stage = "Accumulating" /\ pos = 3
    /\ params[2].key \notin Reserved /\ IsFilterKey(params[2].key)
    /\ Cardinality(InAllWithAlias(QualifierOf(MapFieldName(<<params[2].key>>))))
         + Cardinality(InLocalWithAlias(QualifierOf(MapFieldName(<<params[2].key>>)))) >= 2
    /\ AliasOf(b.joins[Len(b.joins)]) = QualifierOf(MapFieldName(<<params[2].key>>))

\* the operator names in the order the translator tries them
OperatorNames ==
    <<"gte", "lte", "gt", "lt", "ne", "like", "ilike", "null", "notnull", "between">>

\* the first of these names whose prefix '<name>:' starts the value of the
\* first parameter, "" when none does
FirstOperator ==
    LET hit(i) == StartsWith(params[1].value, <<OperatorNames[i], ":">>)
        hits == {i \in 1..Len(OperatorNames) : hit(i)}
    IN  IF hits = {} THEN "" ELSE OperatorNames[Least(hits)]

\* the first parameter, a filter, has been translated or has failed
FirstFilterDone ==
    FirstIsFilter /\ (AfterFirst \/ (pos = 1 /\ stage = "Failed"))

\* the predicate of an operator that compares the field with the remainder
Compared(name) ==
    FirstField \o <<Sp>> \o Get(FILTER_OPERATORS, name).val \o <<Sp>> \o Quoted(Remainder)

\* what C21 says of every operator but between, and of a bare value
OperatorTranslated ==
    /\ Keys(FILTER_OPERATORS) = OperatorNames
    /\ FirstOperator \in {"gte", "lte", "gt", "lt", "ne", "like", "ilike"} =>
           AfterFirst /\ b.where_conditions = <<Compared(FirstOperator)>>
    /\ FirstOperator = "null" =>
           AfterFirst /\ b.where_conditions = <<FirstField \o <<Sp, "IS", Sp, "NULL">>>>
    /\ FirstOperator = "notnull" =>
           AfterFirst
           /\ b.where_conditions = <<FirstField \o <<Sp, "IS", Sp, "NOT", Sp, "NULL">>>>
    /\ (FirstOperator = "" /\ ~Contains(params[1].value, Comma)) =>
           AfterFirst
           /\ b.where_conditions = <<FirstField \o <<Sp, "=", Sp>> \o Quoted(params[1].value)>>

\* C21 (as stated): the translator takes the first operator of gte, lte, gt,
\* lt, ne, like, ilike, null, notnull, between whose prefix starts the value
\* and appends exactly one predicate for it, whatever the operator:
\* the field compared with the whole remainder, IS NULL or IS NOT NULL
\* whatever the remainder, and for between one BETWEEN predicate; a bare
\* value without a comma gives an equality predicate.
C21_OperatorAlwaysAppends ==
    FirstFilterDone =>
        /\ OperatorTranslated
        /\ FirstOperator = "between" =>
               /\ AfterFirst
               /\ Len(b.where_conditions) = 1
               /\ StartsWith(b.where_conditions[1], FirstField \o <<Sp, "BETWEEN", Sp>>)

\* C21 (amended): as stated for every operator but between; a between value
\* appends exactly one BETWEEN predicate when its remainder holds a comma,
\* and when it holds none appends no predicate and fails with a build
\* error.
C21_OperatorTranslated ==
    FirstFilterDone =>
        /\ OperatorTranslated
        /\ FirstOperator = "between" =>
               IF Contains(Remainder, Comma)
               THEN /\ AfterFirst
                    /\ Len(b.where_conditions) = 1
                    /\ StartsWith(b.where_conditions[1], FirstField \o <<Sp, "BETWEEN", Sp>>)
               ELSE /\ stage = "Failed"
                    /\ error[1] = "QueryBuildError"
                    /\ b.where_conditions = <<>>

\* C21 witness: 'gte:5,5' translated by its operator, not as a set of values.
C21_Witness ==
    /\ AfterFirst
    /\ params[1] = Prm("size", <<"gte", ":", "5", Comma, "5">>)
    /\ b.where_conditions =
           << <<"tr", Dot, "transactionSize", Sp, ">=", Sp, Quote, "5", Comma, "5", Quote>> >>

\* the request carries a pattern parameter
HasPatternParam == \E i \in 1..Len(params) : params[i].key = "pattern"

\* the name that parameter supplies
SuppliedPattern ==
    LET v == params[CHOOSE i \in 1..Len(params) : params[i].key = "pattern"].value
    IN  IF v = <<>> THEN "" ELSE v[1]

\* a step of a build as C22 allows it
PatternKept ==
    /\ (HasPatternParam /\ stage' \in {"PatternResolved", "JoinsResolved", "Finalized", "Rendered"}) =>
           b'.detected_pattern = SuppliedPattern
    /\ b.detected_pattern # None => b'.detected_pattern = b.detected_pattern

\* C22: when the request carries a pattern parameter, whatever its value,
\* the detector does not run: the detected pattern from pattern resolution
\* on is the supplied name; and the detected pattern, once assigned, is not
\* assigned again.
C22_ExplicitPatternKept == [][PatternKept]_vars

\* the values of the filters the request carries on the field a name stands for
RequestFilterValues(name) ==
    {params[i].value : i \in {j \in 1..Len(params) :
         /\ params[j].key \notin Reserved
         /\ IsFilterKey(params[j].key)
         /\ MapFieldName(<<params[j].key>>) = MapFieldName(<<name>>)}}

\* a condition of a pattern satisfied by the filters of the request
Satisfied(cond) ==
    IF cond.val = Wildcard THEN RequestFilterValues(cond.key) # {}
    ELSE cond.val \in RequestFilterValues(cond.key)

\* the pattern C23 expects: the first of the catalog whose conditions are
\* all satisfied, else the one the type rules give, else none
ExpectedPattern ==
    LET hits == {i \in 1..Len(QUERY_PATTERNS) :
                    \A c \in 1..Len(QUERY_PATTERNS[i].conditions) :
                        Satisfied(QUERY_PATTERNS[i].conditions[c])}
    IN  IF hits # {} THEN QUERY_PATTERNS[Least(hits)].key
        ELSE IF <<"2">> \in RequestFilterValues("type") THEN "ma_transactions"
        ELSE IF <<"14">> \in RequestFilterValues("type") THEN "buybacks"
        ELSE IF <<"1">> \in RequestFilterValues("type") THEN "private_placements"
        ELSE None

\* C23: when detection has run (the request carries no pattern), the
\* detected pattern is the first pattern of the catalog all of whose
\* conditions the filters of the request satisfy, a wildcard by any value
\* present for the field and a concrete one by the exact string only; when
\* no pattern and no type rule matches it stays unset, the build goes on
\* and the pattern accounts for no join.
C23_FirstMatchingPattern ==
    (~HasPatternParam /\ stage \in {"PatternResolved", "JoinsResolved", "Finalized", "Rendered"}) =>
        /\ b.detected_pattern = ExpectedPattern
        /\ ExpectedPattern = None =>
               /\ error = <<>>
               /\ AddPatternJoins(<<>>, b.detected_pattern) = <<>>

\* the words that open the clauses of a query, in the order of C24
ClauseWords == <<"SELECT", "FROM", "JOIN", "WHERE", "GROUP", "ORDER", "LIMIT">>

\* the places of a word in the rendered query
PlacesOf(w) == {i \in 1..Len(query) : query[i] = w}

\* whether the builder holds anything for the clause a word opens
HasSource(w) ==
    CASE w = "JOIN" -> b.joins # <<>>
      [] w = "WHERE" -> b.where_conditions # <<>>
      [] w = "GROUP" -> b.group_by_fields # <<>>
      [] w = "ORDER" -> b.order_by_clauses # <<>>
      [] w = "LIMIT" -> b.limit_value # <<>>
      [] OTHER -> TRUE

\* the text of the WHERE clause after its word: up to the clause that
\* follows it, or to the end of the query
WhereText ==
    LET from == Least(PlacesOf("WHERE")) + 2
        later == {i \in PlacesOf("GROUP") \cup PlacesOf("ORDER") \cup PlacesOf("LIMIT") : i > from}
    IN  SubSeq(query, from, IF later = {} THEN Len(query) ELSE Least(later) - 2)

\* the OR-group as one predicate
OrGroup == <<"(">> \o Join(b.or_conditions, <<Sp, "OR", Sp>>) \o <<")">>

\* C24: the rendered query has its clauses in the order SELECT, FROM, JOINs,
\* WHERE, GROUP BY, ORDER BY, LIMIT, a clause being there exactly when the
\* builder holds something for it; the WHERE clause is the predicates
\* joined by AND; a non-empty OR-group is among the predicates exactly once,
\* as one parenthesized disjunction, and an empty one adds no predicate.
C24_ClausesInOrder ==
    stage = "Rendered" =>
        /\ \A i \in 1..Len(ClauseWords) : (PlacesOf(ClauseWords[i]) # {}) = HasSource(ClauseWords[i])
        /\ \A i, j \in 1..Len(ClauseWords) :
               i < j => \A p \in PlacesOf(ClauseWords[i]), q \in PlacesOf(ClauseWords[j]) : p < q
        /\ \A w \in Range(ClauseWords) \ {"JOIN"} : Cardinality(PlacesOf(w)) <= 1
        /\ Cardinality(PlacesOf("JOIN")) = Len(b.joins)
        /\ b.where_conditions # <<>> =>
               WhereText = Join(b.where_conditions, <<Sp, "AND", Sp>>)
        /\ LET grouped == {i \in 1..Len(b.where_conditions) : Head(b.where_conditions[i]) = "("}
           IN  IF b.or_conditions = <<>> THEN grouped = {}
               ELSE Cardinality(grouped) = 1 /\ Occurrences(OrGroup) = 1

\* C24 witness: a rendered query with joins, a GROUP BY clause and two
\* predicates, one of them the OR-group.
C24_Witness ==
    /\ stage = "Rendered"
    /\ b.joins # <<>>
    /\ b.group_by_fields # <<>>
    /\ Len(b.where_conditions) = 2
    /\ b.or_conditions # <<>>
    /\ Occurrences(OrGroup) = 1

\* the fields of the builder C25 names
Rendering(bb) ==
    <<bb.select_fields, bb.where_conditions, bb.group_by_fields, bb.order_by_clauses,
      bb.limit_value, bb.offset_value, bb.joins, bb.detected_pattern>>

\* a step of build_query as C25 allows it
PureRender ==
    /\ (stage = "Finalized" /\ stage' = "Rendered") => Rendering(b') = Rendering(b)
    /\ (stage = "Rendered" /\ stage' = "RenderedAgain") =>
           Rendering(b') = Rendering(b) /\ query' = query

\* C25: build_query called on a finalized builder leaves the select list,
\* the predicates, the group-by list, the order-by list, limit, offset, the
\* active joins and the detected pattern as they were, and a second call on
\* the same builder returns the text of the first.
C25_BuildQueryPure == [][PureRender]_vars

\* C25 witness: build_query has been called twice on a builder with
\* predicates and with joins it orders otherwise than they were inserted.
C25_Witness ==
    /\ stage = "RenderedAgain"
    /\ ordered_joins # b.joins
    /\ b.where_conditions # <<>>
    /\ query = BuildQuery(b)
    /\ Contains(query, "JOIN")

\* the builder at work has rendered the query it renders alone, or failed
\* where it fails alone
AsAlone ==
    /\ stage = "Rendered" => query = QueryAlone(params)
    /\ stage = "Failed" => QueryAlone(params) = <<>> /\ error = ParseRequestParams(params).exc
    /\ stage = "Finalized" => b = ParseRequestParams(params).b

\* C26: whatever the order in which the steps of two builders are taken,
\* each renders the query it renders when it is the only one, and after
\* every step the static catalogs are the ones the builders started with.
C26_BuildersIndependent ==
    /\ catalog = <<>>
    /\ AsAlone

\* C26 witness: both builders have rendered, each its own query, after
\* their steps were interleaved.
C26_Witness ==
    /\ DOMAIN peer # {}
    /\ peer.id = 1
    /\ stage = "Rendered" /\ peer.stage = "Rendered"
    /\ query # peer.query
    /\ b.joins # <<>> /\ peer.b.joins # <<>>
    /\ b.joins # peer.b.joins

\* the joins of a list that are ready: none of their prerequisites is in it
ReadyIn(remaining) ==
    SelectSeq(remaining, LAMBDA j : \A dep \in Range(JoinInfo(j).requires) :
                                        dep \notin Range(remaining))

\* every round of _order_joins on a list finds a ready join
RECURSIVE AlwaysReady(_)
AlwaysReady(remaining) ==
    \/ remaining = <<>>
    \/ /\ ReadyIn(remaining) # <<>>
       /\ AlwaysReady(SelectSeq(remaining, LAMBDA j : j \notin Range(ReadyIn(remaining))))

\* C27: with the shipped catalogs the active joins are, in insertion order,
\* each after every active prerequisite of its own, and every round of
\* _order_joins finds a ready join: the fallback for cycles is never taken.
C27_InsertionOrderTopological ==
    /\ \A i \in 1..Len(b.joins) :
           \A d \in Range(JoinInfo(b.joins[i]).requires) \cap Range(b.joins) :
               \E k \in 1..(i - 1) : b.joins[k] = d
    /\ AlwaysReady(b.joins)

\* C27 witness: joins required one after the other and ordered, chains of
\* prerequisites among them, the rendered order not the insertion order.
C27_Witness ==
    /\ handler = "resolver"
    /\ stage = "Rendered"
    /\ Len(b.joins) >= 5
    /\ ordered_joins # b.joins
    /\ \E k \in Range(b.joins) : Cardinality(Prerequisites(k)) >= 3

\* the first parameter of the request is a select parameter, and its entries
FirstIsSelect == Len(params) >= 1 /\ params[1].key = "select"

SelectEntries == Split(params[1].value, Comma)

\* C28: a select parameter of n comma-separated entries appends n entries to
\* the select list, the i-th being the i-th requested entry, trimmed, or the
\* field it maps to: none is dropped and none is there twice.
C28_SelectOnePerEntry ==
    (FirstIsSelect /\ AfterFirst) =>
        /\ Len(b.select_fields) = Len(SelectEntries)
        /\ \A i \in 1..Len(SelectEntries) :
               b.select_fields[i] \in {Strip(SelectEntries[i]), MapFieldName(Strip(SelectEntries[i]))}

\* parse_request_params has returned without raising
ParseSucceeded == stage \in {"Finalized", "Rendered", "RenderedAgain"}

\* the names a parameter of the request asks for, trimmed and resolved
NamesAskedBy(k) ==
    IF Has(params, k)
    THEN LET pieces == Split(Get(params, k).value, Comma)
         IN  {MapFieldName(Strip(pieces[i])) : i \in 1..Len(pieces)}
    ELSE {}

\* C29: once parse_request_params has succeeded every field of the group-by
\* list is in the select list too, whether the request gave select before
\* groupBy or after it.
C29_GroupedAreSelected ==
    ParseSucceeded => Range(b.group_by_fields) \subseteq Range(b.select_fields)

\* C29 witness: groupBy came first and select second, the select parameter
\* does not ask for the grouped field, and the parse has succeeded.
C29_Witness ==
    /\ stage = "Finalized"
    /\ Len(params) = 2
    /\ params[1].key = "groupBy" /\ params[2].key = "select"
    /\ b.group_by_fields # <<>>
    /\ NamesAskedBy("groupBy") \cap NamesAskedBy("select") = {}

\* the other order: select first, groupBy second, the grouped field not asked
\* for by select
SelectThenGroupBy ==
    /\ stage = "Finalized"
    /\ Len(params) = 2
    /\ params[1].key = "select" /\ params[2].key = "groupBy"
    /\ b.group_by_fields # <<>>
    /\ NamesAskedBy("groupBy") \cap NamesAskedBy("select") = {}

\* the places of the rendered query where the word OFFSET stands
OffsetPlaces == {i \in 1..Len(query) : query[i] = "OFFSET"}

\* the text that stands before the word OFFSET when the limit is set
LimitText == <<"LIMIT", Sp>> \o IntText(b.limit_value[1]) \o <<Sp>>

\* C30: in a rendered query the word OFFSET stands only directly after the
\* LIMIT clause, followed by the offset value; when the offset is set and the
\* limit is not, the query has neither LIMIT nor OFFSET and no error is raised.
C30_OffsetOnlyAfterLimit ==
    stage = "Rendered" =>
        /\ \A i \in OffsetPlaces :
               /\ b.limit_value # <<>> /\ b.offset_value # <<>>
               /\ i > Len(LimitText)
               /\ SubSeq(query, i - Len(LimitText), i - 1) = LimitText
               /\ SubSeq(query, i + 1, Len(query)) = <<Sp>> \o IntText(b.offset_value[1])
        /\ (b.offset_value # <<>> /\ b.limit_value = <<>>) =>
               /\ ~Contains(query, "LIMIT") /\ ~Contains(query, "OFFSET")
               /\ error = <<>>
        /\ (b.offset_value # <<>> /\ b.limit_value # <<>>) => OffsetPlaces # {}

\* C30 witness: a request with an offset and no limit has been rendered.
C30_Witness ==
    /\ stage = "Rendered"
    /\ Has(params, "offset") /\ ~Has(params, "limit")
    /\ b.offset_value # <<>> /\ b.limit_value = <<>>
    /\ query # <<>>

\* a request with both an offset and a limit has been rendered
OffsetAfterLimit ==
    /\ stage = "Rendered"
    /\ b.offset_value # <<>> /\ b.limit_value # <<>>
    /\ OffsetPlaces # {}

====
